---- MODULE Spec2Model ----
(***************************************************************************)
(* Range-bar pipeline of k-wg/lastllye.                                    *)
(*                                                                         *)
(*   src/historic_df_live.py    feed handler, gap recovery, range-bar      *)
(*                              aggregator, bar table (CSV)                *)
(*   src/indicator_computes.py  stateful indicator engine, indicator table *)
(*                                                                         *)
(* Prices are integers counted in ticks (the exchange's minimum price      *)
(* increment), so range_size is a positive number of ticks.  Times are     *)
(* integers in milliseconds.  Averages and ratios are exact rationals      *)
(* <<numerator, denominator>>.                                             *)
(***************************************************************************)
EXTENDS Integers, Sequences, FiniteSets, TLC

(***************************************************************************)
(* Bounds of the model.                                                    *)
(***************************************************************************)
MaxEvents == 3
MaxLive == 2
MaxTime == 130000
MaxFetchMs == 2000
MaxBars == 4
MaxClose == 2
RsiLength == 2
RsiSignalLength == 2
FibLength == 3
MaxFeed == 8
MaxRetryTime == 260000
MaxOutageTime == 1100000
MaxSlowTime == 180000
MaxSilenceTail == 70000
PrefetchMs == 16000
MaxTenths == 6

(***************************************************************************)
(* Program constants.                                                      *)
(***************************************************************************)
KLINE_INTERVAL_SECONDS == 1
MAX_KLINES_PER_REQUEST == 1000
KLINES_MAXLEN == 10000
GAP_DETECTION_THRESHOLD == 300
GAP_CHECK_INTERVAL == 60
HEALTH_CHECK_INTERVAL == 10
STALE_SECONDS == 30
GAP_FILL_DEBOUNCE_SECONDS == 10
GAP_START_OFFSET_MS == 1000
GAP_SAFETY_MARGIN_MS == 2000
MAX_GAP_FILL_RETRIES == 3
WS_INITIAL_RECONNECT_DELAY == 5
WS_MAX_RECONNECT_DELAY == 60
NairobiOffsetMs == 10800000
NoTime == -1
SleepSteps == {32000}
FetchSteps == {1000}

(***************************************************************************)
(* Generic helpers.                                                        *)
(***************************************************************************)
Abs(x) == IF x < 0 THEN -x ELSE x

Max2(a, b) == IF a >= b THEN a ELSE b

Min2(a, b) == IF a <= b THEN a ELSE b

\* The element of a one-element set.  An operand written as the set's
\* element, x \in {operand}, is evaluated once, however often x is used.
The(S) == CHOOSE x \in S : TRUE

RECURSIVE GCD(_, _)
GCD(a, b) ==
  IF b = 0 THEN a ELSE The({GCD(y, x % y) : x \in {a}, y \in {b}})

\* The fraction n/d in lowest terms with a positive denominator.
Reduce(n, d) ==
  LET g == GCD(Abs(n), Abs(d))
      s == IF d < 0 THEN -1 ELSE 1
  IN  IF n = 0 THEN <<0, 1>> ELSE <<s * (n \div g), s * (d \div g)>>

RatNorm(n, d) == The({Reduce(x, y) : x \in {n}, y \in {d}})

RatInt(n) == <<n, 1>>

RatAdd(a, b) ==
  The({RatNorm(x[1] * y[2] + y[1] * x[2], x[2] * y[2]) : x \in {a}, y \in {b}})

RatSub(a, b) ==
  The({RatNorm(x[1] * y[2] - y[1] * x[2], x[2] * y[2]) : x \in {a}, y \in {b}})

RatMul(a, b) ==
  The({RatNorm(x[1] * y[1], x[2] * y[2]) : x \in {a}, y \in {b}})

RatDiv(a, b) ==
  The({RatNorm(x[1] * y[2], x[2] * y[1]) : x \in {a}, y \in {b}})

RatLE(a, b) == a[1] * b[2] <= b[1] * a[2]

RECURSIVE SumField(_, _)
SumField(s, f) ==
  IF s = <<>> THEN 0
  ELSE IF Len(s) = 1 THEN s[1][f]
  ELSE LET h == Len(s) \div 2
       IN  SumField(SubSeq(s, 1, h), f) + SumField(SubSeq(s, h + 1, Len(s)), f)

(***************************************************************************)
(* State.                                                                  *)
(***************************************************************************)
VARIABLES
  range_size,      \* global range_size, set once by get_symbol_ticksize
  klines_data,     \* the shared event buffer (deque)
  current_bar,     \* <<>> for None, <<bar>> for the in-progress bar
  bar_klines,      \* events held for the in-progress bar
  df,              \* the in-memory bar table
  csv_file,        \* contents of historic_df_alpha.csv
  csv_mtime,       \* modification counter of the bar table file
  agg_log,         \* history: one entry per event the aggregator processed
  next_id,         \* history: identity of the next event appended
  fed              \* number of events produced by the exchange so far

aggVars == <<range_size, klines_data, current_bar, bar_klines, df, csv_file,
             csv_mtime, agg_log, next_id, fed>>

VARIABLES
  now,                        \* the wall clock, in ms
  pc,                         \* position of the main thread
  data_lock,                  \* "free" or the holder of data_lock
  all_completed_bars,         \* local of create_range_bar_from_klines
  loop_time,                  \* main(): current_time of this iteration
  last_gap_check,             \* main(): last_gap_check
  last_health_check,          \* main(): last_health_check
  ws_connected,
  ws_reconnect_delay,
  ws_reconnection_detected,
  last_kline_time,
  last_successful_ws_update,  \* the watermark
  last_gap_fill_time,
  gap_fill_retry_count,
  gap_filling_in_progress,
  data_gap_filling,
  prefetch_completed,
  gap,                        \* locals of the running check_for_data_gaps
  hist                        \* history of outages and gap-recovery runs

wsVars == <<ws_connected, ws_reconnect_delay, ws_reconnection_detected,
            last_kline_time, last_successful_ws_update>>

gapVars == <<last_gap_fill_time, gap_fill_retry_count, gap_filling_in_progress,
             data_gap_filling, prefetch_completed, gap>>

mainVars == <<pc, data_lock, all_completed_bars, loop_time, last_gap_check,
              last_health_check>>

envVars == <<now, hist>>

VARIABLES
  engine,               \* the StatefulIndicatorEngine of the indicator process
  engine_initialized,   \* continuous_indicator_calculator: engine_initialized
  last_modified_time,   \* continuous_indicator_calculator: last_modified_time
  indicators_csv,       \* contents of pinescript_indicators.csv
  engine_replay,        \* a second engine, fed by one historical replay
  bars_in,              \* the bar sequence given to the two engines
  ind_pos               \* how many bars of bars_in the first engine was given

indVars == <<engine, engine_initialized, last_modified_time, indicators_csv,
             engine_replay, bars_in, ind_pos>>

VARIABLES
  csv_tmp,       \* contents of historic_df_alpha.csv.tmp, the file save_csv writes
  ind_pending    \* rows save_indicators_to_csv has still to write to its file

storeVars == <<csv_tmp, ind_pending>>

vars == <<aggVars, wsVars, gapVars, mainVars, envVars, indVars, storeVars>>

(***************************************************************************)
(* format_timestamp: UTC milliseconds to the Africa/Nairobi wall clock     *)
(* (UTC+3, no daylight saving) at millisecond precision.  The string is    *)
(* represented by the wall-clock millisecond count it spells out.          *)
(***************************************************************************)
format_timestamp(ts_ms) == ts_ms + NairobiOffsetMs

(***************************************************************************)
(* Events.                                                                 *)
(***************************************************************************)
Kline(id, ts, o, h, l, c, v, q, n) ==
  [id |-> id, timestamp |-> ts, open_time |-> ts,
   close_time |-> ts + KLINE_INTERVAL_SECONDS * 1000 - 1,
   open |-> o, high |-> h, low |-> l, close |-> c,
   volume |-> v, quote_volume |-> q, trades |-> n]

(***************************************************************************)
(* The aggregator.                                                         *)
(***************************************************************************)
check_range_completion_loose(high, low) == high - low >= range_size - 1

check_range_completion(high, low) == high - low >= range_size

create_completed_bar(open_price, high, low, close_price, klines, open_time, close_time) ==
  LET total_volume == SumField(klines, "volume")
      total_quote_volume == SumField(klines, "quote_volume")
      total_trades == SumField(klines, "trades")
  IN  [OpenTime |-> format_timestamp(open_time),
       Open |-> open_price,
       High |-> high,
       Low |-> low,
       Close |-> close_price,
       Volume |-> total_volume,
       CloseTime |-> format_timestamp(close_time),
       QuoteAssetVolume |-> total_quote_volume,
       NumberOfTrades |-> total_trades,
       TakerBuyBase |-> RatNorm(total_volume, 2),
       TakerBuyQuote |-> RatNorm(total_quote_volume, 2),
       Ignore |-> 0]

NewBar(open_price, high, low, close_price, open_time, close_time) ==
  [open_price |-> open_price, high |-> high, low |-> low,
   close_price |-> close_price, open_time |-> open_time,
   close_time |-> close_time]

\* The state threaded through one drain: cb = current_bar, bk = bar_klines,
\* out = all_completed_bars, log = history of processed events.
AggState(cb, bk, out, log) == [cb |-> cb, bk |-> bk, out |-> out, log |-> log]

LogEntry(kline, st, path, bars) ==
  [id |-> kline.id,
   kline |-> kline,
   had_bar |-> st.cb # <<>>,
   open_before |-> IF st.cb # <<>> THEN st.cb[1].open_price ELSE 0,
   path |-> path,
   bars |-> bars,
   cb_after |-> <<>>]

possible_bars(price, open_price) == Abs(price - open_price) \div range_size

handle_large_price_jump_one_bar(st, price, timestamp, kline_data) ==
  LET cur == st.cb[1]
      open_price == cur.open_price
      up == price > open_price
      completed_high == IF up THEN open_price + range_size ELSE cur.high
      completed_low == IF up THEN cur.low ELSE open_price - range_size
      completed_close == IF up THEN completed_high ELSE completed_low
      completed_bar == create_completed_bar(open_price, completed_high,
                         completed_low, completed_close, st.bk,
                         cur.open_time, timestamp)
      ncb == <<NewBar(completed_close, Max2(completed_close, price),
                      Min2(completed_close, price), price, timestamp, timestamp)>>
  IN  AggState(ncb, <<kline_data>>, st.out \o <<completed_bar>>,
        Append(st.log, [LogEntry(kline_data, st, "jump", <<completed_bar>>)
                         EXCEPT !.cb_after = ncb]))

handle_large_price_jump_range_steps(st, price, timestamp, kline_data) ==
  LET cur == st.cb[1]
      open_price == cur.open_price
      up == price > open_price
      completed_high == IF up THEN open_price + range_size ELSE cur.high
      completed_low == IF up THEN cur.low ELSE open_price - range_size
      completed_close == IF up THEN completed_high ELSE completed_low
      completed_bar == create_completed_bar(open_price, completed_high,
                         completed_low, completed_close, st.bk,
                         cur.open_time, timestamp)
      remaining_move == Abs(price - completed_close)
      up2 == price > completed_close
      additional_open == completed_close
      additional_close == IF up2 THEN additional_open + range_size
                                 ELSE additional_open - range_size
      additional_high == IF up2 THEN additional_close ELSE additional_open
      additional_low == IF up2 THEN additional_open ELSE additional_close
      additional_bar == create_completed_bar(additional_open, additional_high,
                          additional_low, additional_close, <<kline_data>>,
                          timestamp, timestamp)
  IN  IF remaining_move >= range_size
      THEN LET ncb == <<NewBar(additional_close, additional_close,
                               additional_close, additional_close,
                               timestamp, timestamp)>>
           IN  AggState(ncb, <<>>,
                 st.out \o <<completed_bar, additional_bar>>,
                 Append(st.log,
                   [LogEntry(kline_data, st, "jump", <<completed_bar, additional_bar>>)
                     EXCEPT !.cb_after = ncb]))
      ELSE LET ncb == <<NewBar(completed_close, Max2(completed_close, price),
                               Min2(completed_close, price), price,
                               timestamp, timestamp)>>
           IN  AggState(ncb, <<kline_data>>,
                 st.out \o <<completed_bar>>,
                 Append(st.log,
                   [LogEntry(kline_data, st, "jump", <<completed_bar>>)
                     EXCEPT !.cb_after = ncb]))

handle_large_price_jump_stale_high(st, price, timestamp, kline_data) ==
  LET cur == st.cb[1]
      open_price == cur.open_price
      up == price > open_price
      completed_high == cur.high
      completed_low == IF up THEN cur.low ELSE open_price - range_size
      completed_close == IF up THEN open_price + range_size ELSE completed_low
      completed_bar == create_completed_bar(open_price, completed_high,
                         completed_low, completed_close, st.bk,
                         cur.open_time, timestamp)
      remaining_move == Abs(price - completed_close)
      up2 == price > completed_close
      additional_open == completed_close
      additional_high == IF up2 THEN price ELSE additional_open
      additional_low == IF up2 THEN additional_open ELSE price
      additional_close == price
      additional_bar == create_completed_bar(additional_open, additional_high,
                          additional_low, additional_close, <<kline_data>>,
                          timestamp, timestamp)
  IN  IF remaining_move >= range_size
      THEN LET ncb == <<NewBar(additional_close, additional_close,
                               additional_close, additional_close,
                               timestamp, timestamp)>>
           IN  AggState(ncb, <<>>,
                 st.out \o <<completed_bar, additional_bar>>,
                 Append(st.log,
                   [LogEntry(kline_data, st, "jump", <<completed_bar, additional_bar>>)
                     EXCEPT !.cb_after = ncb]))
      ELSE LET ncb == <<NewBar(completed_close, Max2(completed_close, price),
                               Min2(completed_close, price), price,
                               timestamp, timestamp)>>
           IN  AggState(ncb, <<kline_data>>,
                 st.out \o <<completed_bar>>,
                 Append(st.log,
                   [LogEntry(kline_data, st, "jump", <<completed_bar>>)
                     EXCEPT !.cb_after = ncb]))

handle_large_price_jump_counts_twice(st, price, timestamp, kline_data) ==
  LET cur == st.cb[1]
      open_price == cur.open_price
      up == price > open_price
      completed_high == IF up THEN open_price + range_size ELSE cur.high
      completed_low == IF up THEN cur.low ELSE open_price - range_size
      completed_close == IF up THEN completed_high ELSE completed_low
      completed_bar == create_completed_bar(open_price, completed_high,
                         completed_low, completed_close,
                         Append(st.bk, kline_data),
                         cur.open_time, timestamp)
      remaining_move == Abs(price - completed_close)
      up2 == price > completed_close
      additional_open == completed_close
      additional_high == IF up2 THEN price ELSE additional_open
      additional_low == IF up2 THEN additional_open ELSE price
      additional_close == price
      additional_bar == create_completed_bar(additional_open, additional_high,
                          additional_low, additional_close, <<kline_data>>,
                          timestamp, timestamp)
  IN  IF remaining_move >= range_size
      THEN LET ncb == <<NewBar(additional_close, additional_close,
                               additional_close, additional_close,
                               timestamp, timestamp)>>
           IN  AggState(ncb, <<>>,
                 st.out \o <<completed_bar, additional_bar>>,
                 Append(st.log,
                   [LogEntry(kline_data, st, "jump", <<completed_bar, additional_bar>>)
                     EXCEPT !.cb_after = ncb]))
      ELSE LET ncb == <<NewBar(completed_close, Max2(completed_close, price),
                               Min2(completed_close, price), price,
                               timestamp, timestamp)>>
           IN  AggState(ncb, <<kline_data>>,
                 st.out \o <<completed_bar>>,
                 Append(st.log,
                   [LogEntry(kline_data, st, "jump", <<completed_bar>>)
                     EXCEPT !.cb_after = ncb]))

handle_large_price_jump(st, price, timestamp, kline_data) ==
  LET cur == st.cb[1]
      open_price == cur.open_price
      up == price > open_price
      completed_high == IF up THEN open_price + range_size ELSE cur.high
      completed_low == IF up THEN cur.low ELSE open_price - range_size
      completed_close == IF up THEN completed_high ELSE completed_low
      completed_bar == create_completed_bar(open_price, completed_high,
                         completed_low, completed_close, st.bk,
                         cur.open_time, timestamp)
      remaining_move == Abs(price - completed_close)
      up2 == price > completed_close
      additional_open == completed_close
      additional_high == IF up2 THEN price ELSE additional_open
      additional_low == IF up2 THEN additional_open ELSE price
      additional_close == price
      additional_bar == create_completed_bar(additional_open, additional_high,
                          additional_low, additional_close, <<kline_data>>,
                          timestamp, timestamp)
  IN  IF remaining_move >= range_size
      THEN LET ncb == <<NewBar(additional_close, additional_close,
                               additional_close, additional_close,
                               timestamp, timestamp)>>
           IN  AggState(ncb, <<>>,
                 st.out \o <<completed_bar, additional_bar>>,
                 Append(st.log,
                   [LogEntry(kline_data, st, "jump", <<completed_bar, additional_bar>>)
                     EXCEPT !.cb_after = ncb]))
      ELSE LET ncb == <<NewBar(completed_close, Max2(completed_close, price),
                               Min2(completed_close, price), price,
                               timestamp, timestamp)>>
           IN  AggState(ncb, <<kline_data>>,
                 st.out \o <<completed_bar>>,
                 Append(st.log,
                   [LogEntry(kline_data, st, "jump", <<completed_bar>>)
                     EXCEPT !.cb_after = ncb]))

process_kline_into_bar_carry(st, kline_data) ==
  LET price == kline_data.close
      timestamp == kline_data.close_time
      bk1 == Append(st.bk, kline_data)
  IN  IF st.cb = <<>>
      THEN LET ncb == <<NewBar(price, kline_data.high, kline_data.low, price,
                               kline_data.open_time, timestamp)>>
           IN  AggState(ncb, bk1, st.out,
                 Append(st.log, [LogEntry(kline_data, st, "init", <<>>)
                                  EXCEPT !.cb_after = ncb]))
      ELSE LET cur == st.cb[1]
               h == Max2(cur.high, kline_data.high)
               l == Min2(cur.low, kline_data.low)
               upd == <<NewBar(cur.open_price, h, l, price, cur.open_time, timestamp)>>
               up == price > cur.open_price
               edge == IF up THEN cur.open_price + range_size
                             ELSE cur.open_price - range_size
           IN  IF check_range_completion(h, l)
               THEN LET completed_bar == create_completed_bar(cur.open_price,
                                           h, l, edge, bk1, cur.open_time, timestamp)
                        ncb == <<NewBar(edge, Max2(edge, price), Min2(edge, price),
                                        price, timestamp, timestamp)>>
                    IN  AggState(ncb, <<>>, Append(st.out, completed_bar),
                          Append(st.log,
                            [LogEntry(kline_data, st, "ordinary", <<completed_bar>>)
                              EXCEPT !.cb_after = ncb]))
               ELSE AggState(upd, bk1, st.out,
                      Append(st.log, [LogEntry(kline_data, st, "ordinary", <<>>)
                                       EXCEPT !.cb_after = upd]))

process_kline_into_bar_open_at_low(st, kline_data) ==
  LET price == kline_data.close
      timestamp == kline_data.close_time
      bk1 == Append(st.bk, kline_data)
  IN  IF st.cb = <<>>
      THEN LET ncb == <<NewBar(price, kline_data.high, kline_data.low, price,
                               kline_data.open_time, timestamp)>>
           IN  AggState(ncb, bk1, st.out,
                 Append(st.log, [LogEntry(kline_data, st, "init", <<>>)
                                  EXCEPT !.cb_after = ncb]))
      ELSE LET cur == st.cb[1]
               h == Max2(cur.high, kline_data.high)
               l == Min2(cur.low, kline_data.low)
               upd == <<NewBar(cur.open_price, h, l, price, cur.open_time, timestamp)>>
           IN  IF check_range_completion(h, l)
               THEN LET completed_bar == create_completed_bar(cur.open_price,
                                           h, l, price, bk1, cur.open_time, timestamp)
                        ncb == <<NewBar(kline_data.low, price, kline_data.low, price,
                                        timestamp, timestamp)>>
                    IN  AggState(ncb, <<>>, Append(st.out, completed_bar),
                          Append(st.log,
                            [LogEntry(kline_data, st, "ordinary", <<completed_bar>>)
                              EXCEPT !.cb_after = ncb]))
               ELSE AggState(upd, bk1, st.out,
                      Append(st.log, [LogEntry(kline_data, st, "ordinary", <<>>)
                                       EXCEPT !.cb_after = upd]))

process_kline_into_bar(st, kline_data) ==
  LET price == kline_data.close
      timestamp == kline_data.close_time
      bk1 == Append(st.bk, kline_data)
  IN  IF st.cb = <<>>
      THEN LET ncb == <<NewBar(price, kline_data.high, kline_data.low, price,
                               kline_data.open_time, timestamp)>>
           IN  AggState(ncb, bk1, st.out,
                 Append(st.log, [LogEntry(kline_data, st, "init", <<>>)
                                  EXCEPT !.cb_after = ncb]))
      ELSE LET cur == st.cb[1]
               h == Max2(cur.high, kline_data.high)
               l == Min2(cur.low, kline_data.low)
               upd == <<NewBar(cur.open_price, h, l, price, cur.open_time, timestamp)>>
           IN  IF check_range_completion(h, l)
               THEN LET completed_bar == create_completed_bar(cur.open_price,
                                           h, l, price, bk1, cur.open_time, timestamp)
                        ncb == <<NewBar(price, price, price, price,
                                        timestamp, timestamp)>>
                    IN  AggState(ncb, <<>>, Append(st.out, completed_bar),
                          Append(st.log,
                            [LogEntry(kline_data, st, "ordinary", <<completed_bar>>)
                              EXCEPT !.cb_after = ncb]))
               ELSE AggState(upd, bk1, st.out,
                      Append(st.log, [LogEntry(kline_data, st, "ordinary", <<>>)
                                       EXCEPT !.cb_after = upd]))

\* One iteration of the for loop of create_range_bar_from_klines.
AggLoopBody(st, kline) ==
  IF st.cb # <<>> /\ possible_bars(kline.close, st.cb[1].open_price) >= 2
  THEN handle_large_price_jump(st, kline.close, kline.close_time, kline)
  ELSE process_kline_into_bar(st, kline)

\* The for loop: the events are processed from first to last; the recursion
\* splits the list in halves only to keep the evaluation shallow.
RECURSIVE AggLoop(_, _)
AggLoop(st, ks) ==
  IF Len(st.log) >= 0 /\ ks = <<>> THEN st
  ELSE IF Len(ks) = 1 THEN AggLoopBody(st, ks[1])
  ELSE LET h == Len(ks) \div 2
       IN  AggLoop(AggLoop(st, SubSeq(ks, 1, h)), SubSeq(ks, h + 1, Len(ks)))


(***************************************************************************)
(* Time.  timedelta.seconds is the seconds field of a normalised           *)
(* timedelta: whole seconds modulo one day.                                *)
(***************************************************************************)
timedelta_seconds(d_ms) == (d_ms \div 1000) % 86400

(***************************************************************************)
(* The exchange.  In the pipeline specification the market trades in       *)
(* bursts, three seconds in every sixteen, and only a second with trades   *)
(* has a kline; the price follows one path, a zigzag of one range per      *)
(* second, so that consecutive klines of a burst complete bars.            *)
(***************************************************************************)
Traded(ts) == ((ts \div 1000) % 16) \in {0, 1, 2}

PriceAt(ts) == IF (ts \div 1000) % 2 = 0 THEN 0 ELSE range_size

ExchangeKline(id, ts) ==
  Kline(id, ts, PriceAt(ts), PriceAt(ts), PriceAt(ts), PriceAt(ts), 1, 1, 1)

AlignUp(t) == ((t + 999) \div 1000) * 1000

AlignDown(t) == (t \div 1000) * 1000

\* The open times of the klines the exchange has in [lo, hi], oldest first.
RECURSIVE TradedIn(_, _)
TradedIn(lo, hi) ==
  IF hi - lo < 0 THEN <<>>
  ELSE IF hi - lo < 16000
  THEN LET n == ((hi - lo) \div 1000) + 1
           all == [i \in 1..n |-> lo + (i - 1) * 1000]
       IN  SelectSeq(all, Traded)
  ELSE TradedIn(lo, lo + 15000) \o TradedIn(lo + 16000, hi)

\* client.get_klines(startTime, endTime, limit=1000): the one-second klines
\* with start <= open time <= end that exist at the exchange, oldest first,
\* at most MAX_KLINES_PER_REQUEST of them.
fetch_historical_klines(start_time, end_time) ==
  LET ts == TradedIn(AlignUp(start_time), AlignDown(Min2(end_time, now)))
      n == Min2(Len(ts), MAX_KLINES_PER_REQUEST)
  IN  [i \in 1..n |-> ExchangeKline(0, ts[i])]

(***************************************************************************)
(* The shared buffer: deque(maxlen=10000).                                 *)
(***************************************************************************)
\* list.sort(key=timestamp) is a stable sort: insertion of each element
\* after the elements already placed whose timestamp is not larger.  The
\* elements placed are in order, so an element not smaller than the last of
\* them goes to the end.
InsertByTimestamp(s, x) ==
  IF s = <<>> \/ s[Len(s)].timestamp <= x.timestamp THEN Append(s, x)
  ELSE LET idx == Cardinality({i \in 1..Len(s) : s[i].timestamp <= x.timestamp})
       IN  SubSeq(s, 1, idx) \o <<x>> \o SubSeq(s, idx + 1, Len(s))

\* The elements of rest are inserted from first to last; the recursion splits
\* rest in halves only to keep the evaluation shallow.
RECURSIVE SortInto(_, _)
SortInto(acc, rest) ==
  IF Len(acc) >= 0 /\ rest = <<>> THEN acc
  ELSE IF Len(rest) = 1 THEN InsertByTimestamp(acc, rest[1])
  ELSE LET h == Len(rest) \div 2
       IN  SortInto(SortInto(acc, SubSeq(rest, 1, h)), SubSeq(rest, h + 1, Len(rest)))

SortByTimestamp(s) == SortInto(<<>>, s)

DequeKeep_oldest(s) ==
  IF Len(s) > KLINES_MAXLEN THEN SubSeq(s, 1, KLINES_MAXLEN) ELSE s

\* deque(maxlen): extending a full deque discards from the other end, so the
\* last KLINES_MAXLEN elements remain.
DequeKeep(s) ==
  IF Len(s) > KLINES_MAXLEN THEN SubSeq(s, Len(s) - KLINES_MAXLEN + 1, Len(s)) ELSE s

DequeDropped(s) ==
  IF Len(s) > KLINES_MAXLEN
  THEN {s[i].id : i \in 1..(Len(s) - KLINES_MAXLEN)} ELSE {}

Relabel(s, base) == [i \in 1..Len(s) |-> [s[i] EXCEPT !.id = base + i - 1]]

(***************************************************************************)
(* History variables of the pipeline.                                      *)
(***************************************************************************)
HistInit ==
  [phase |-> "none", lo |-> 0, hi |-> 0, recovered |-> FALSE,
   live_first |-> FALSE, api_failed |-> FALSE, appended_ts |-> {},
   evicted |-> {}, during_fetch |-> {}, last_live_ts |-> -1000,
   skip_retry_before |-> -1, live_ts |-> {}, backfilled_live |-> {},
   last_run |-> "none", empty_streak |-> 0,
   file_at_save |-> <<>>, ind_before |-> <<>>,
   RANGE_SIZE |-> 0, symbol_found |-> TRUE, tick_size |-> 1]

GapIdle ==
  [current_time |-> 0, reason |-> "none", gap_start_ms |-> 0, gap_end_ms |-> 0,
   current_chunk_start |-> 0, all_gap_data |-> <<>>, w_read |-> 0,
   requests |-> <<>>, after_up |-> FALSE]

(***************************************************************************)
(* kline_handler, on the feed thread.                                      *)
(***************************************************************************)
kline_handler(k, t) ==
  /\ data_lock = "free"
  /\ klines_data' = DequeKeep(Append(klines_data, k))
  /\ hist' = [hist EXCEPT !.appended_ts = @ \cup {k.timestamp},
                          !.evicted = @ \cup DequeDropped(Append(klines_data, k)),
                          !.last_live_ts = k.timestamp,
                          !.live_ts = @ \cup {k.timestamp},
                          !.during_fetch = IF pc = "gap_fetch" THEN @ \cup {k.id} ELSE @,
                          !.live_first = @ \/ (hist.phase # "none" /\ ~hist.recovered)]
  /\ next_id' = next_id + 1
  /\ fed' = fed + 1
  /\ last_kline_time' = t
  /\ last_successful_ws_update' = t
  /\ ws_connected' = TRUE

\* A live message: the stream pushes the kline of the current second.
LiveMessage ==
  /\ fed < MaxLive
  /\ UNCHANGED <<indVars, storeVars>>
  /\ Traded(now)
  /\ hist.last_live_ts < AlignDown(now)
  /\ kline_handler(ExchangeKline(next_id, AlignDown(now)), now)
  /\ UNCHANGED <<range_size, current_bar, bar_klines, df, csv_file, csv_mtime,
                 agg_log, ws_reconnect_delay, ws_reconnection_detected,
                 gapVars, mainVars, now>>

(***************************************************************************)
(* The environment: time passes.                                           *)
(***************************************************************************)
Tick ==
  /\ \/ /\ pc = "sleep"
        /\ \E d \in SleepSteps :
             /\ now + d <= MaxTime
             /\ now' = now + d
     \/ /\ pc = "gap_fetch"
        /\ \E d \in FetchSteps :
             /\ now + d <= MaxTime
             /\ now + d - gap.current_time <= MaxFetchMs
             /\ now' = now + d
  /\ UNCHANGED <<aggVars, wsVars, gapVars, mainVars, hist, indVars, storeVars>>

(***************************************************************************)
(* process_new_data / create_range_bar_from_klines / save_csv.             *)
(***************************************************************************)
AfterProcess(p) == IF p = "process" THEN "gap_decide" ELSE "health_decide"

\* with data_lock: the loop over list(klines_data).
ProcessAcquire(p) ==
  /\ pc = p
  /\ UNCHANGED <<indVars, storeVars>>
  /\ data_lock = "free"
  /\ IF klines_data = <<>>
     THEN /\ pc' = AfterProcess(p)
          /\ last_gap_check' = IF p = "process2" THEN loop_time ELSE last_gap_check
          /\ UNCHANGED <<current_bar, bar_klines, agg_log, all_completed_bars, data_lock>>
     ELSE LET st == AggLoop(AggState(current_bar, bar_klines, <<>>, agg_log),
                            klines_data)
          IN  /\ current_bar' = st.cb
              /\ bar_klines' = st.bk
              /\ agg_log' = st.log
              /\ all_completed_bars' = st.out
              /\ data_lock' = "main"
              /\ pc' = IF p = "process" THEN "process_locked" ELSE "process2_locked"
              /\ UNCHANGED last_gap_check
  /\ UNCHANGED <<range_size, klines_data, df, csv_file, csv_mtime, next_id, fed,
                 wsVars, gapVars, loop_time, last_health_check, envVars>>

save_csv(table) == IF table = <<>> THEN csv_file ELSE table

\* klines_data.clear(), release of data_lock, then the rest of process_new_data.
ProcessRelease_no_clear(p) ==
  /\ pc = (IF p = "process" THEN "process_locked" ELSE "process2_locked")
  /\ UNCHANGED <<indVars, storeVars>>
  /\ data_lock = "main"
  /\ klines_data' = klines_data
  /\ data_lock' = "free"
  /\ df' = df \o all_completed_bars
  /\ csv_file' = IF all_completed_bars # <<>> THEN save_csv(df') ELSE csv_file
  /\ csv_mtime' = IF all_completed_bars # <<>> THEN csv_mtime + 1 ELSE csv_mtime
  /\ all_completed_bars' = <<>>
  /\ pc' = AfterProcess(p)
  /\ last_gap_check' = IF p = "process2" THEN loop_time ELSE last_gap_check
  /\ UNCHANGED <<range_size, current_bar, bar_klines, agg_log, next_id, fed,
                 wsVars, gapVars, loop_time, last_health_check, envVars>>

ProcessRelease(p) ==
  /\ pc = (IF p = "process" THEN "process_locked" ELSE "process2_locked")
  /\ UNCHANGED <<indVars, storeVars>>
  /\ data_lock = "main"
  /\ klines_data' = <<>>
  /\ data_lock' = "free"
  /\ df' = df \o all_completed_bars
  /\ csv_file' = IF all_completed_bars # <<>> THEN save_csv(df') ELSE csv_file
  /\ csv_mtime' = IF all_completed_bars # <<>> THEN csv_mtime + 1 ELSE csv_mtime
  /\ all_completed_bars' = <<>>
  /\ pc' = AfterProcess(p)
  /\ last_gap_check' = IF p = "process2" THEN loop_time ELSE last_gap_check
  /\ UNCHANGED <<range_size, current_bar, bar_klines, agg_log, next_id, fed,
                 wsVars, gapVars, loop_time, last_health_check, envVars>>

process_new_data_begin == ProcessAcquire("process")

process_new_data_end == ProcessRelease("process")

process_gap_data_begin == ProcessAcquire("process2")

process_gap_data_end == ProcessRelease("process2")


(***************************************************************************)
(* main(): the periodic loop.                                              *)
(***************************************************************************)
\* Lines 994-999: current_time = time.time() and the gap-check timer.
GapDecide ==
  /\ pc = "gap_decide"
  /\ UNCHANGED <<indVars, storeVars>>
  /\ loop_time' = now
  /\ pc' = IF now - last_gap_check >= GAP_CHECK_INTERVAL * 1000
           THEN "gap_start" ELSE "health_decide"
  /\ UNCHANGED <<aggVars, wsVars, gapVars, data_lock, all_completed_bars,
                 last_gap_check, last_health_check, envVars>>

(***************************************************************************)
(* check_for_data_gaps.                                                    *)
(***************************************************************************)
GapGuardsPass_no_debounce ==
  /\ prefetch_completed
  /\ ~gap_filling_in_progress
  /\ ~data_gap_filling
  /\ last_successful_ws_update # NoTime

GapGuardsPass ==
  /\ prefetch_completed
  /\ ~gap_filling_in_progress
  /\ ~data_gap_filling
  /\ ~(last_gap_fill_time # NoTime
       /\ timedelta_seconds(now - last_gap_fill_time) < GAP_FILL_DEBOUNCE_SECONDS)
  /\ last_successful_ws_update # NoTime

GapReason(t) ==
  IF ws_reconnection_detected THEN "reconnect"
  ELSE IF t - last_successful_ws_update > GAP_DETECTION_THRESHOLD * 1000 THEN "stale"
  ELSE IF gap_fill_retry_count > 0 THEN "retry"
  ELSE "none"

GapFinally_keeps_flag ==
  /\ gap_filling_in_progress' = FALSE
  /\ data_gap_filling' = data_gap_filling
  /\ last_gap_fill_time' = now

\* The `finally` clause.
GapFinally ==
  /\ gap_filling_in_progress' = FALSE
  /\ data_gap_filling' = FALSE
  /\ last_gap_fill_time' = now

\* Lines 646-681 when they return False.  The reconnection flag is cleared
\* only on the path that goes on to fill.
GapCheckReturnEarly ==
  /\ pc = "gap_start"
  /\ UNCHANGED <<indVars, storeVars>>
  /\ ~GapGuardsPass \/ GapReason(now) = "none"
  /\ last_gap_check' = loop_time
  /\ pc' = "health_decide"
  /\ UNCHANGED <<aggVars, wsVars, gapVars, data_lock, all_completed_bars,
                 loop_time, last_health_check, envVars>>

\* Lines 646-690 when a gap is to be filled.
GapCheckBegin ==
  /\ pc = "gap_start"
  /\ UNCHANGED <<indVars, storeVars>>
  /\ GapGuardsPass
  /\ GapReason(now) # "none"
  /\ ws_reconnection_detected' = FALSE
  /\ gap_filling_in_progress' = TRUE
  /\ data_gap_filling' = TRUE
  /\ gap' = [GapIdle EXCEPT !.current_time = now, !.reason = GapReason(now),
                            !.after_up = (hist.phase = "up")]
  /\ pc' = "gap_window"
  /\ UNCHANGED <<aggVars, ws_connected, ws_reconnect_delay, last_kline_time,
                 last_successful_ws_update, last_gap_fill_time,
                 gap_fill_retry_count, prefetch_completed, data_lock,
                 all_completed_bars, loop_time, last_gap_check,
                 last_health_check, envVars>>

gap_start_of_1ms(w) == w + 1

gap_start_of(w) == w + GAP_START_OFFSET_MS

gap_end_of(t) == t - GAP_SAFETY_MARGIN_MS

small_window_retry_keep(r) == r

small_window_retry(r) == 0

\* Lines 692-703: the window is empty or negative.
GapWindowSkip ==
  /\ pc = "gap_window"
  /\ UNCHANGED <<indVars, storeVars>>
  /\ gap_end_of(gap.current_time) <= gap_start_of(last_successful_ws_update)
  /\ gap_fill_retry_count' = small_window_retry(gap_fill_retry_count)
  /\ GapFinally
  /\ gap' = GapIdle
  /\ hist' = [hist EXCEPT !.skip_retry_before = gap_fill_retry_count,
                          !.last_run = "skipped", !.empty_streak = 0,
                          !.recovered = @ \/ (gap.after_up /\ gap.reason = "reconnect")]
  /\ last_gap_check' = loop_time
  /\ pc' = "health_decide"
  /\ UNCHANGED <<aggVars, wsVars, prefetch_completed, data_lock,
                 all_completed_bars, loop_time, last_health_check, now>>

\* Lines 692-715: the window is positive; the chunk loop starts.
GapWindowOpen ==
  /\ pc = "gap_window"
  /\ UNCHANGED <<indVars, storeVars>>
  /\ gap_end_of(gap.current_time) > gap_start_of(last_successful_ws_update)
  /\ gap' = [gap EXCEPT !.gap_start_ms = gap_start_of(last_successful_ws_update),
                        !.gap_end_ms = gap_end_of(gap.current_time),
                        !.current_chunk_start = gap_start_of(last_successful_ws_update),
                        !.all_gap_data = <<>>,
                        !.w_read = last_successful_ws_update]
  /\ pc' = "gap_fetch"
  /\ UNCHANGED <<aggVars, wsVars, last_gap_fill_time, gap_fill_retry_count,
                 gap_filling_in_progress, data_gap_filling, prefetch_completed,
                 data_lock, all_completed_bars, loop_time, last_gap_check,
                 last_health_check, envVars>>

chunk_size_ms == MAX_KLINES_PER_REQUEST * KLINE_INTERVAL_SECONDS * 1000

\* One iteration of the chunk loop, lines 730-752, against the endpoint
\* get_klines.  answered = FALSE is a request that fetch_historical_klines
\* turns into [] (API error).
GapChunkFrom(get_klines(_, _), answered) ==
  /\ pc = "gap_fetch"
  /\ UNCHANGED <<indVars, storeVars>>
  /\ gap.current_chunk_start < gap.gap_end_ms
  /\ LET current_chunk_end == Min2(gap.current_chunk_start + chunk_size_ms,
                                   gap.gap_end_ms)
         chunk_data == IF answered
                       THEN SortByTimestamp(get_klines(
                              gap.current_chunk_start, current_chunk_end))
                       ELSE <<>>
     IN  gap' = [gap EXCEPT
                   !.all_gap_data = @ \o chunk_data,
                   !.current_chunk_start = current_chunk_end + 1,
                   !.requests = Append(@, <<gap.current_chunk_start,
                                             current_chunk_end, answered>>)]
  /\ hist' = [hist EXCEPT !.api_failed = @ \/ ~answered]
  /\ UNCHANGED <<aggVars, wsVars, last_gap_fill_time, gap_fill_retry_count,
                 gap_filling_in_progress, data_gap_filling, prefetch_completed,
                 mainVars, now>>

GapChunk(answered) == GapChunkFrom(fetch_historical_klines, answered)

GapFetchChunk == GapChunk(TRUE)

GapFetchError == GapChunk(FALSE)

empty_result_retry_no_reset(r) == r + 1

\* Lines 779-783: the retry counter after an empty result.
empty_result_retry(r) == IF r + 1 >= MAX_GAP_FILL_RETRIES THEN 0 ELSE r + 1

merge_gap_data_replace(buffer, all_gap_data) == SortByTimestamp(all_gap_data)

\* Lines 757-760: existing_data = list(klines_data), extended by the
\* backfilled klines and sorted by timestamp.
merge_gap_data(buffer, all_gap_data) == SortByTimestamp(buffer \o all_gap_data)

\* Lines 754-787 and the finally clause: merge, or count an empty result.
GapFinish ==
  /\ pc = "gap_fetch"
  /\ UNCHANGED <<indVars, storeVars>>
  /\ gap.current_chunk_start >= gap.gap_end_ms
  /\ data_lock = "free"
  /\ IF gap.all_gap_data # <<>>
     THEN LET added == Relabel(gap.all_gap_data, next_id)
              existing_data == merge_gap_data(klines_data, added)
          IN  /\ klines_data' = DequeKeep(existing_data)
              /\ next_id' = next_id + Len(added)
              /\ hist' = [hist EXCEPT
                    !.appended_ts = @ \cup {added[i].timestamp : i \in 1..Len(added)},
                    !.evicted = @ \cup DequeDropped(existing_data),
                    !.backfilled_live = @ \cup
                        ({added[i].timestamp : i \in 1..Len(added)} \cap hist.live_ts),
                    !.last_run = "merged", !.empty_streak = 0,
                    !.recovered = @ \/ (gap.after_up /\ gap.reason = "reconnect")]
              /\ last_successful_ws_update' = gap.gap_end_ms
              /\ gap_fill_retry_count' = 0
              /\ pc' = "process2"
              /\ UNCHANGED last_gap_check
     ELSE /\ gap_fill_retry_count' = empty_result_retry(gap_fill_retry_count)
          /\ last_successful_ws_update' =
               IF gap_fill_retry_count + 1 >= MAX_GAP_FILL_RETRIES
               THEN gap.current_time ELSE last_successful_ws_update
          /\ hist' = [hist EXCEPT
                    !.last_run = "empty", !.empty_streak = @ + 1,
                    !.recovered = @ \/ (gap.after_up /\ gap.reason = "reconnect")]
          /\ pc' = "health_decide"
          /\ last_gap_check' = loop_time
          /\ UNCHANGED <<klines_data, next_id>>
  /\ GapFinally
  /\ gap' = GapIdle
  /\ UNCHANGED <<range_size, current_bar, bar_klines, df, csv_file, csv_mtime,
                 agg_log, fed, ws_connected, ws_reconnect_delay,
                 ws_reconnection_detected, last_kline_time, prefetch_completed,
                 data_lock, all_completed_bars, loop_time, last_health_check,
                 now>>

\* Lines 789-799: an exception raised inside the try block.
GapException ==
  /\ pc = "gap_fetch"
  /\ UNCHANGED <<indVars, storeVars>>
  /\ gap_fill_retry_count' = gap_fill_retry_count + 1
  /\ GapFinally
  /\ gap' = GapIdle
  /\ hist' = [hist EXCEPT !.api_failed = TRUE,
                          !.last_run = "error", !.empty_streak = 0,
                          !.recovered = @ \/ (gap.after_up /\ gap.reason = "reconnect")]
  /\ last_gap_check' = loop_time
  /\ pc' = "health_decide"
  /\ UNCHANGED <<aggVars, wsVars, prefetch_completed, data_lock,
                 all_completed_bars, loop_time, last_health_check, now>>

(***************************************************************************)
(* check_websocket_health and start_websocket.                             *)
(***************************************************************************)
HealthSkip ==
  /\ pc = "health_decide"
  /\ UNCHANGED <<indVars, storeVars>>
  /\ loop_time - last_health_check < HEALTH_CHECK_INTERVAL * 1000
  /\ pc' = "sleep"
  /\ UNCHANGED <<aggVars, wsVars, gapVars, data_lock, all_completed_bars,
                 loop_time, last_gap_check, last_health_check, envVars>>

HealthCheck ==
  /\ pc = "health_decide"
  /\ UNCHANGED <<indVars, storeVars>>
  /\ loop_time - last_health_check >= HEALTH_CHECK_INTERVAL * 1000
  /\ data_lock = "free"
  /\ IF last_kline_time = NoTime
     THEN /\ ws_connected' = FALSE
          /\ pc' = "reconnect"
          /\ UNCHANGED <<ws_reconnection_detected, last_health_check>>
     ELSE IF timedelta_seconds(now - last_kline_time) > STALE_SECONDS
     THEN /\ ws_connected' = FALSE
          /\ ws_reconnection_detected' = (ws_reconnection_detected \/ ws_connected)
          /\ pc' = "reconnect"
          /\ UNCHANGED last_health_check
     ELSE /\ ws_connected' = TRUE
          /\ last_health_check' = loop_time
          /\ pc' = "sleep"
          /\ UNCHANGED ws_reconnection_detected
  /\ hist' = IF /\ hist.phase = "none"
                /\ last_kline_time # NoTime
                /\ timedelta_seconds(now - last_kline_time) > STALE_SECONDS
             THEN [hist EXCEPT !.phase = "down", !.lo = last_kline_time]
             ELSE hist
  /\ UNCHANGED <<aggVars, ws_reconnect_delay, last_kline_time,
                 last_successful_ws_update, gapVars, data_lock,
                 all_completed_bars, loop_time, last_gap_check, now>>

\* start_websocket succeeds: lines 866-898, then main lines 1015-1018.
StartWebsocketOk ==
  /\ pc = "reconnect"
  /\ UNCHANGED <<indVars, storeVars>>
  /\ ws_reconnection_detected' = (ws_reconnection_detected \/ ws_connected)
  /\ ws_connected' = FALSE
  /\ ws_reconnect_delay' = WS_INITIAL_RECONNECT_DELAY
  /\ hist' = IF hist.phase = "down"
             THEN [hist EXCEPT !.phase = "up", !.hi = now]
             ELSE hist
  /\ last_health_check' = loop_time
  /\ pc' = "sleep"
  /\ UNCHANGED <<aggVars, last_kline_time, last_successful_ws_update, gapVars,
                 data_lock, all_completed_bars, loop_time, last_gap_check, now>>

\* start_websocket raises while starting the manager or the socket: lines
\* 900-919; it sleeps and calls itself again (the sleep is time that passes
\* before the main loop gets control back).
StartWebsocketFail ==
  /\ pc = "reconnect"
  /\ UNCHANGED <<indVars, storeVars>>
  /\ ws_reconnection_detected' = TRUE
  /\ ws_connected' = FALSE
  /\ ws_reconnect_delay' = Min2(ws_reconnect_delay * 2, WS_MAX_RECONNECT_DELAY)
  /\ UNCHANGED <<aggVars, last_kline_time, last_successful_ws_update, gapVars,
                 mainVars, envVars>>

\* time.sleep(0.1) and the next iteration.
LoopNext ==
  /\ pc = "sleep"
  /\ UNCHANGED <<indVars, storeVars>>
  /\ pc' = "process"
  /\ UNCHANGED <<aggVars, wsVars, gapVars, data_lock, all_completed_bars,
                 loop_time, last_gap_check, last_health_check, envVars>>

(***************************************************************************)
(* indicator_computes.py: the stateful calculators.  Floating-point        *)
(* values are exact rationals <<numerator, denominator>>; NaN and None     *)
(* (both "not available", both an empty CSV cell) are the pair <<0, 0>>.   *)
(***************************************************************************)
NaN == <<0, 0>>

IsNa(v) == v[2] = 0

DequeAppend(s, x, maxlen) ==
  LET t == Append(s, x)
  IN  IF Len(t) > maxlen THEN Tail(t) ELSE t

RECURSIVE RatSum(_)
RatSum(s) == IF s = <<>> THEN RatInt(0) ELSE RatAdd(Head(s), RatSum(Tail(s)))

RatMean(s) == RatDiv(RatSum(s), RatInt(Len(s)))

RECURSIVE SeqMax(_)
SeqMax(s) == IF Len(s) = 1 THEN s[1] ELSE Max2(s[1], SeqMax(Tail(s)))

RECURSIVE SeqMin(_)
SeqMin(s) == IF Len(s) = 1 THEN s[1] ELSE Min2(s[1], SeqMin(Tail(s)))

\* StatefulRSICalculator.__init__
StatefulRSICalculator(length) ==
  [length |-> length, previous_avg_gain |-> NaN, previous_avg_loss |-> NaN,
   previous_price |-> NaN, initialized |-> FALSE, initial_prices |-> <<>>]

rsi_value_gain_first(avg_gain, avg_loss) ==
  IF avg_gain[1] = 0 THEN RatInt(0)
  ELSE IF avg_loss[1] = 0 THEN RatInt(100)
  ELSE RatSub(RatInt(100),
              RatDiv(RatInt(100), RatAdd(RatInt(1), RatDiv(avg_gain, avg_loss))))

\* The three-way result at the end of initialize and of update.
rsi_value(avg_gain, avg_loss) ==
  IF avg_loss[1] = 0 THEN RatInt(100)
  ELSE IF avg_gain[1] = 0 THEN RatInt(0)
  ELSE RatSub(RatInt(100),
              RatDiv(RatInt(100), RatAdd(RatInt(1), RatDiv(avg_gain, avg_loss))))

\* StatefulRSICalculator.initialize
rsi_initialize(r, prices) ==
  IF Len(prices) < r.length + 1
  THEN [calc |-> r, value |-> NaN]
  ELSE LET changes == [i \in 1..(Len(prices) - 1) |-> prices[i + 1] - prices[i]]
           gains   == [i \in 1..r.length |->
                         RatInt(IF changes[i] >= 0 THEN changes[i] ELSE 0)]
           losses  == [i \in 1..r.length |->
                         RatInt(IF changes[i] < 0 THEN -changes[i] ELSE 0)]
           g == RatMean(gains)
           l == RatMean(losses)
       IN  [calc  |-> [r EXCEPT !.previous_avg_gain = g,
                                !.previous_avg_loss = l,
                                !.previous_price = RatInt(prices[Len(prices)]),
                                !.initialized = TRUE],
            value |-> rsi_value(g, l)]

\* StatefulRSICalculator.update
rsi_update(r, new_price) ==
  IF ~r.initialized
  THEN LET ip == DequeAppend(r.initial_prices, new_price, r.length + 1)
           r1 == [r EXCEPT !.initial_prices = ip]
       IN  IF Len(ip) >= r.length + 1
           THEN rsi_initialize(r1, ip)
           ELSE [calc |-> r1, value |-> NaN]
  ELSE LET change == RatSub(RatInt(new_price), r.previous_price)
           gain == IF change[1] > 0 THEN change ELSE RatInt(0)
           loss == IF change[1] < 0 THEN RatSub(RatInt(0), change) ELSE RatInt(0)
           g == RatDiv(RatAdd(RatMul(r.previous_avg_gain, RatInt(r.length - 1)), gain),
                       RatInt(r.length))
           l == RatDiv(RatAdd(RatMul(r.previous_avg_loss, RatInt(r.length - 1)), loss),
                       RatInt(r.length))
       IN  [calc  |-> [r EXCEPT !.previous_avg_gain = g,
                                !.previous_avg_loss = l,
                                !.previous_price = RatInt(new_price)],
            value |-> rsi_value(g, l)]

\* StatefulSMA.__init__
StatefulSMA(length) == [length |-> length, values |-> <<>>, initialized |-> FALSE]

sma_update_unbounded(s, new_value) ==
  IF IsNa(new_value)
  THEN [calc |-> s, value |-> NaN]
  ELSE LET vs == Append(s.values, new_value)
       IN  IF Len(vs) < s.length
           THEN [calc |-> [s EXCEPT !.values = vs], value |-> NaN]
           ELSE [calc |-> [s EXCEPT !.values = vs, !.initialized = TRUE],
                 value |-> RatMean(vs)]

\* StatefulSMA.update
sma_update(s, new_value) ==
  IF IsNa(new_value)
  THEN [calc |-> s, value |-> NaN]
  ELSE LET vs == DequeAppend(s.values, new_value, s.length)
       IN  IF Len(vs) < s.length
           THEN [calc |-> [s EXCEPT !.values = vs], value |-> NaN]
           ELSE [calc |-> [s EXCEPT !.values = vs, !.initialized = TRUE],
                 value |-> RatMean(vs)]

\* StatefulMovingAverage.__init__
StatefulMovingAverage(length) ==
  [length |-> length, prices |-> <<>>, initialized |-> FALSE]

ma_update_unbounded(m, new_price) ==
  LET ps == Append(m.prices, new_price)
  IN  IF Len(ps) < m.length
      THEN [calc |-> [m EXCEPT !.prices = ps], value |-> NaN]
      ELSE [calc |-> [m EXCEPT !.prices = ps, !.initialized = TRUE],
            value |-> RatMean([i \in 1..Len(ps) |-> RatInt(ps[i])])]

\* StatefulMovingAverage.update
ma_update(m, new_price) ==
  LET ps == DequeAppend(m.prices, new_price, m.length)
  IN  IF Len(ps) < m.length
      THEN [calc |-> [m EXCEPT !.prices = ps], value |-> NaN]
      ELSE [calc |-> [m EXCEPT !.prices = ps, !.initialized = TRUE],
            value |-> RatMean([i \in 1..Len(ps) |-> RatInt(ps[i])])]

\* StatefulFibonacci.__init__
StatefulFibonacci(length) ==
  [length |-> length, prices |-> <<>>, initialized |-> FALSE]

FibNaN ==
  [level_100 |-> NaN, level_764 |-> NaN, level_618 |-> NaN, level_500 |-> NaN,
   level_382 |-> NaN, level_236 |-> NaN, level_000 |-> NaN]

fib_update_unbounded(f, new_price) ==
  LET ps == Append(f.prices, new_price)
  IN  IF Len(ps) < f.length
      THEN [calc |-> [f EXCEPT !.prices = ps], value |-> FibNaN]
      ELSE LET maxr == RatInt(SeqMax(ps))
               minr == RatInt(SeqMin(ps))
               ranr == RatSub(maxr, minr)
           IN  [calc  |-> [f EXCEPT !.prices = ps, !.initialized = TRUE],
                value |-> [level_100 |-> maxr,
                           level_764 |-> RatSub(maxr, RatMul(RatNorm(236, 1000), ranr)),
                           level_618 |-> RatSub(maxr, RatMul(RatNorm(382, 1000), ranr)),
                           level_500 |-> RatSub(maxr, RatMul(RatNorm(50, 100), ranr)),
                           level_382 |-> RatAdd(minr, RatMul(RatNorm(382, 1000), ranr)),
                           level_236 |-> RatAdd(minr, RatMul(RatNorm(236, 1000), ranr)),
                           level_000 |-> minr]]

\* StatefulFibonacci.update
fib_update(f, new_price) ==
  LET ps == DequeAppend(f.prices, new_price, f.length)
  IN  IF Len(ps) < f.length
      THEN [calc |-> [f EXCEPT !.prices = ps], value |-> FibNaN]
      ELSE LET maxr == RatInt(SeqMax(ps))
               minr == RatInt(SeqMin(ps))
               ranr == RatSub(maxr, minr)
           IN  [calc  |-> [f EXCEPT !.prices = ps, !.initialized = TRUE],
                value |-> [level_100 |-> maxr,
                           level_764 |-> RatSub(maxr, RatMul(RatNorm(236, 1000), ranr)),
                           level_618 |-> RatSub(maxr, RatMul(RatNorm(382, 1000), ranr)),
                           level_500 |-> RatSub(maxr, RatMul(RatNorm(50, 100), ranr)),
                           level_382 |-> RatAdd(minr, RatMul(RatNorm(382, 1000), ranr)),
                           level_236 |-> RatAdd(minr, RatMul(RatNorm(236, 1000), ranr)),
                           level_000 |-> minr]]

(***************************************************************************)
(* StatefulIndicatorEngine.  The daily_diff column depends on a price      *)
(* fetched from the exchange at computation time and is left out.          *)
(***************************************************************************)
MaNames == {"short002", "short007", "short21", "short50",
            "long100", "long200", "long350", "long500"}

\* The lengths given to the eight StatefulMovingAverage objects.
MaLength(name) ==
  CASE name = "short002" -> 2
    [] name = "short007" -> 7
    [] name = "short21"  -> 14
    [] name = "short50"  -> 50
    [] name = "long100"  -> 100
    [] name = "long200"  -> 200
    [] name = "long350"  -> 350
    [] name = "long500"  -> 500

\* StatefulIndicatorEngine.__init__
StatefulIndicatorEngine ==
  [initialized |-> FALSE,
   last_processed_time |-> NoTime,
   current_df |-> <<>>,
   rsi |-> StatefulRSICalculator(RsiLength),
   rsi_ma50 |-> StatefulSMA(RsiSignalLength),
   ma_calculators |-> [name \in MaNames |-> StatefulMovingAverage(MaLength(name))],
   fibonacci |-> StatefulFibonacci(FibLength)]

\* The row extended with the results of the calculators, and the engine with
\* the calculators' new state.
IndicatorRow(e, row, r, s, ms, fb) ==
  [engine |-> [e EXCEPT !.rsi = r.calc,
                        !.rsi_ma50 = s.calc,
                        !.ma_calculators = [name \in MaNames |-> ms[name].calc],
                        !.fibonacci = fb.calc],
   row |-> [rsi |-> r.value, rsi_ma50 |-> s.value,
            ma |-> [name \in MaNames |-> ms[name].value],
            fib |-> fb.value] @@ row]

\* The calculators that follow the RSI in the loop body.
AfterRsi(e, row, r) ==
  The({IndicatorRow(e, row, r, s, ms, fb) :
         s \in {IF IsNa(r.value) THEN [calc |-> e.rsi_ma50, value |-> NaN]
                ELSE sma_update(e.rsi_ma50, r.value)},
         ms \in {[name \in MaNames |->
                   ma_update(e.ma_calculators[name], row.Close)]},
         fb \in {fib_update(e.fibonacci, row.Close)}})

\* The body both loops share: every calculator is given the row's Close and
\* the row is extended with the results.
compute_indicators(e0, row0) ==
  The({The({AfterRsi(e, row, r) : r \in {rsi_update(e.rsi, row.Close)}}) :
         e \in {e0}, row \in {row0}})

RECURSIVE InitLoop(_, _)
InitLoop(e, rows) ==
  IF rows = <<>> THEN e
  ELSE The({InitLoop([c.engine EXCEPT !.current_df = Append(@, c.row)], Tail(rows)) :
              c \in {compute_indicators(e, Head(rows))}})

\* StatefulIndicatorEngine.initialize_from_history
initialize_from_history(e, historical_df) ==
  IF historical_df = <<>>
  THEN [engine |-> e, ok |-> FALSE]
  ELSE The({[engine |-> [e1 EXCEPT !.initialized = TRUE,
                                   !.last_processed_time =
                                       e1.current_df[Len(e1.current_df)].OpenTime],
             ok |-> TRUE] :
            e1 \in {InitLoop([e EXCEPT !.current_df = <<>>], historical_df)}})

RECURSIVE ProcessLoop_no_skip(_, _, _)
ProcessLoop_no_skip(e, rows, new_data) ==
  IF rows = <<>> THEN [engine |-> e, new_data |-> new_data]
  ELSE The({The({ProcessLoop_no_skip(
                   [c.engine EXCEPT !.last_processed_time = Head(rows).OpenTime],
                   Tail(rows), Append(new_data, c.row)) :
                 c \in {compute_indicators(ev, Head(rows))}}) :
            ev \in {e}})

\* The loop of process_new_data, with its skip of rows at or before
\* last_processed_time.
RECURSIVE ProcessLoop(_, _, _)
ProcessLoop(e, rows, new_data) ==
  IF rows = <<>> THEN [engine |-> e, new_data |-> new_data]
  ELSE The({IF ev.last_processed_time # NoTime
               /\ Head(rows).OpenTime <= ev.last_processed_time
            THEN ProcessLoop(ev, Tail(rows), new_data)
            ELSE The({ProcessLoop(
                        [c.engine EXCEPT !.last_processed_time = Head(rows).OpenTime],
                        Tail(rows), Append(new_data, c.row)) :
                      c \in {compute_indicators(ev, Head(rows))}}) :
            ev \in {e}})

\* StatefulIndicatorEngine.process_new_data
process_new_data(e, new_rows_df) ==
  IF ~e.initialized \/ new_rows_df = <<>>
  THEN [engine |-> e, ok |-> FALSE]
  ELSE LET p == ProcessLoop(e, new_rows_df, <<>>)
       IN  IF p.new_data # <<>>
           THEN [engine |-> [p.engine EXCEPT !.current_df = @ \o p.new_data],
                 ok |-> TRUE]
           ELSE [engine |-> p.engine, ok |-> FALSE]

(***************************************************************************)
(* The pipeline specification: feed thread, main loop, clock.              *)
(***************************************************************************)
\* The indicator process has not been started.
IndIdle ==
  /\ engine = StatefulIndicatorEngine
  /\ engine_initialized = FALSE
  /\ last_modified_time = NoTime
  /\ indicators_csv = <<>>
  /\ engine_replay = StatefulIndicatorEngine
  /\ bars_in = <<>>
  /\ ind_pos = 0
  /\ ind_pending = <<>>

\* The globals of historic_df_live.py, with the main thread at position p.
MainGlobals(r, p, h) ==
  /\ range_size = r
  /\ klines_data = <<>>
  /\ current_bar = <<>>
  /\ bar_klines = <<>>
  /\ df = <<>>
  /\ csv_file = <<>>
  /\ csv_tmp = <<>>
  /\ csv_mtime = 0
  /\ agg_log = <<>>
  /\ next_id = 1
  /\ fed = 0
  /\ now = 0
  /\ pc = p
  /\ data_lock = "free"
  /\ all_completed_bars = <<>>
  /\ loop_time = 0
  /\ last_gap_check = 0
  /\ last_health_check = 0
  /\ ws_connected = FALSE
  /\ ws_reconnect_delay = WS_INITIAL_RECONNECT_DELAY
  /\ ws_reconnection_detected = FALSE
  /\ last_kline_time = NoTime
  /\ last_successful_ws_update = 0
  /\ last_gap_fill_time = NoTime
  /\ gap_fill_retry_count = 0
  /\ gap_filling_in_progress = FALSE
  /\ data_gap_filling = FALSE
  /\ prefetch_completed = TRUE
  /\ gap = GapIdle
  /\ hist = h

\* main() up to the loop, with range_size = r and an empty prefetch.
MainStarted(r) == MainGlobals(r, "process", HistInit)

Init == MainStarted(1) /\ IndIdle

Next ==
  \/ LiveMessage
  \/ Tick
  \/ process_new_data_begin
  \/ process_new_data_end
  \/ GapDecide
  \/ GapCheckReturnEarly
  \/ GapCheckBegin
  \/ GapWindowSkip
  \/ GapWindowOpen
  \/ GapFetchChunk
  \/ GapFetchError
  \/ GapFinish
  \/ GapException
  \/ process_gap_data_begin
  \/ process_gap_data_end
  \/ HealthSkip
  \/ HealthCheck
  \/ StartWebsocketOk
  \/ StartWebsocketFail
  \/ LoopNext

Spec == Init /\ [][Next]_vars

(***************************************************************************)
(* The pipeline with a stream that never delivers: the main loop, its      *)
(* health checks and reconnects, and gap-recovery runs whose requests are  *)
(* answered, or fail, before the clock moves.                              *)
(***************************************************************************)
\* time.sleep between loop iterations, as in Tick.
RetrySleep ==
  /\ pc = "sleep"
  /\ \E d \in SleepSteps :
       /\ now + d <= MaxRetryTime
       /\ now' = now + d
  /\ UNCHANGED <<aggVars, wsVars, gapVars, mainVars, hist, indVars, storeVars>>

NextRetry ==
  \/ RetrySleep
  \/ process_new_data_begin
  \/ GapDecide
  \/ GapCheckReturnEarly
  \/ GapCheckBegin
  \/ GapWindowOpen
  \/ GapFetchChunk
  \/ GapFetchError
  \/ GapFinish
  \/ GapException
  \/ process_gap_data_begin
  \/ process_gap_data_end
  \/ HealthSkip
  \/ HealthCheck
  \/ StartWebsocketOk
  \/ StartWebsocketFail
  \/ LoopNext

SpecRetry == Init /\ [][NextRetry]_vars

(***************************************************************************)
(* A long outage.  start_websocket fails again and again, sleeping         *)
(* ws_reconnect_delay seconds after each failure, and the main loop gets   *)
(* control back only when it succeeds; the gap window that follows is      *)
(* longer than one request of MAX_KLINES_PER_REQUEST klines.  The stream    *)
(* never delivers, so every health check fails, and after the first idle   *)
(* stretch of the loop the time passes inside start_websocket.  The        *)
(* connection attempts fail until the outage ends and succeed from then    *)
(* on.                                                                     *)
(***************************************************************************)
\* time.sleep between loop iterations, until the first health check is due.
FirstSleep ==
  /\ pc = "sleep"
  /\ now = 0
  /\ \E d \in SleepSteps : now' = now + d
  /\ UNCHANGED <<aggVars, wsVars, gapVars, mainVars, hist, indVars, storeVars>>

StartWebsocketRetry_uncapped ==
  /\ pc = "reconnect"
  /\ last_health_check = 0
  /\ UNCHANGED <<indVars, storeVars>>
  /\ ws_reconnection_detected' = TRUE
  /\ ws_connected' = FALSE
  /\ ws_reconnect_delay' = ws_reconnect_delay * 2
  /\ now + ws_reconnect_delay' * 1000 <= MaxOutageTime
  /\ now' = now + ws_reconnect_delay' * 1000
  /\ UNCHANGED <<aggVars, last_kline_time, last_successful_ws_update, gapVars,
                 mainVars, hist>>

\* start_websocket raises: lines 900-919, with the sleep before the retry.
\* last_health_check = 0 as long as no call of start_websocket has returned.
StartWebsocketRetry ==
  /\ pc = "reconnect"
  /\ last_health_check = 0
  /\ UNCHANGED <<indVars, storeVars>>
  /\ ws_reconnection_detected' = TRUE
  /\ ws_connected' = FALSE
  /\ ws_reconnect_delay' = Min2(ws_reconnect_delay * 2, WS_MAX_RECONNECT_DELAY)
  /\ now + ws_reconnect_delay' * 1000 <= MaxOutageTime
  /\ now' = now + ws_reconnect_delay' * 1000
  /\ UNCHANGED <<aggVars, last_kline_time, last_successful_ws_update, gapVars,
                 mainVars, hist>>

NextOutage ==
  \/ FirstSleep
  \/ process_new_data_begin
  \/ GapDecide
  \/ GapCheckBegin
  \/ GapWindowOpen
  \/ GapFetchChunk
  \/ GapFetchError
  \/ GapFinish
  \/ process_gap_data_begin
  \/ process_gap_data_end
  \/ HealthSkip
  \/ HealthCheck
  \/ StartWebsocketOk
  \/ StartWebsocketRetry
  \/ LoopNext

SpecOutage == Init /\ [][NextOutage]_vars

(***************************************************************************)
(* A slow historical endpoint.  The stream never delivers; the first        *)
(* request of a gap-recovery run is answered late, so a run can finish     *)
(* shortly before the next gap check of the main loop is due.              *)
(***************************************************************************)
SlowFetchSteps == {45000, 55000}

SlowSleepSteps == {6000}

\* time.sleep between loop iterations.
SlowSleep ==
  /\ pc = "sleep"
  /\ \E d \in SlowSleepSteps :
       /\ now + d <= MaxSlowTime
       /\ now' = now + d
  /\ UNCHANGED <<aggVars, wsVars, gapVars, mainVars, hist, indVars, storeVars>>

\* Lines 188-203: the time the first request of a run takes.
SlowFetch ==
  /\ pc = "gap_fetch"
  /\ gap.requests = <<>>
  /\ now = gap.current_time
  /\ \E d \in SlowFetchSteps :
       /\ now + d <= MaxSlowTime
       /\ now' = now + d
  /\ UNCHANGED <<aggVars, wsVars, gapVars, mainVars, hist, indVars, storeVars>>

NextSlowFetch ==
  \/ SlowSleep
  \/ SlowFetch
  \/ process_new_data_begin
  \/ GapDecide
  \/ GapCheckReturnEarly
  \/ GapCheckBegin
  \/ GapWindowOpen
  \/ GapFetchChunk
  \/ GapFetchError
  \/ GapFinish
  \/ process_gap_data_begin
  \/ process_gap_data_end
  \/ HealthSkip
  \/ HealthCheck
  \/ StartWebsocketOk
  \/ StartWebsocketFail
  \/ LoopNext

SpecSlowFetch == Init /\ [][NextSlowFetch]_vars

(***************************************************************************)
(* A long silence.  The stream delivers at most MaxLive messages and the   *)
(* historical endpoint is down (fetch_historical_klines returns [] for     *)
(* every request), while start_websocket succeeds.  Between two iterations *)
(* of the main loop either the usual idle stretch passes or one whole day  *)
(* (time.sleep returns late: the process was stopped, the host slept).     *)
(***************************************************************************)
OneDayMs == 86400000

SilenceSteps == {32000, OneDayMs}

\* time.sleep between loop iterations.
SilenceSleep ==
  /\ pc = "sleep"
  /\ \E d \in SilenceSteps :
       /\ now + d <= OneDayMs + MaxSilenceTail
       /\ (now + d) % OneDayMs <= MaxSilenceTail
       /\ now' = now + d
  /\ UNCHANGED <<aggVars, wsVars, gapVars, mainVars, hist, indVars, storeVars>>

NextSilence ==
  \/ SilenceSleep
  \/ LiveMessage
  \/ process_new_data_begin
  \/ process_new_data_end
  \/ GapDecide
  \/ GapCheckReturnEarly
  \/ GapCheckBegin
  \/ GapWindowSkip
  \/ GapWindowOpen
  \/ GapFetchError
  \/ GapFinish
  \/ HealthSkip
  \/ HealthCheck
  \/ StartWebsocketOk
  \/ LoopNext

SpecSilence == Init /\ [][NextSilence]_vars

(***************************************************************************)
(* The chunk loop against an exchange that has a kline for every second.   *)
(* One message arrives at a time of any alignment within the second, the   *)
(* stream is then silent for a stretch longer than GAP_DETECTION_THRESHOLD, *)
(* and the gap check that follows requests the window chunk by chunk.      *)
(***************************************************************************)
\* client.get_klines(startTime, endTime, limit=1000), lines 197-203, when
\* every second of the window has a kline: the klines whose open time lies
\* in [start_time, end_time], oldest first, at most MAX_KLINES_PER_REQUEST.
fetch_every_second(start_time, end_time) ==
  LET first == AlignUp(start_time)
      last == AlignDown(end_time)
      have == IF last < first THEN 0 ELSE ((last - first) \div 1000) + 1
      n == Min2(have, MAX_KLINES_PER_REQUEST)
  IN  [i \in 1..n |-> ExchangeKline(0, first + (i - 1) * 1000)]

\* The arrival times of the message: on the second, just after it, in the
\* middle of it and just before the next.
MessageTimes == {1000, 1001, 1500, 1999}

\* The silence after the message.  The window is 3 seconds shorter: less
\* than one chunk, one chunk exactly, a little more, and more than two.
SilenceLengths == {400000, 1003000, 1004000, 2006000}

\* kline_handler, lines 277-304: the message of the run.
ChunkMessage ==
  /\ pc = "process"
  /\ fed = 0
  /\ now = 0
  /\ \E t \in MessageTimes :
       /\ now' = t
       /\ kline_handler(ExchangeKline(next_id, AlignDown(t)), t)
  /\ UNCHANGED <<range_size, current_bar, bar_klines, df, csv_file, csv_mtime,
                 agg_log, ws_reconnect_delay, ws_reconnection_detected,
                 gapVars, mainVars, indVars, storeVars>>

\* time.sleep between loop iterations while the stream is silent.
ChunkSilence ==
  /\ pc = "sleep"
  /\ now = last_kline_time
  /\ \E d \in SilenceLengths : now' = now + d
  /\ UNCHANGED <<aggVars, wsVars, gapVars, mainVars, hist, indVars, storeVars>>

ChunkFetch == GapChunkFrom(fetch_every_second, TRUE)

NextChunks ==
  \/ ChunkMessage
  \/ ChunkSilence
  \/ process_new_data_begin
  \/ process_new_data_end
  \/ GapDecide
  \/ HealthSkip
  \/ LoopNext
  \/ GapCheckBegin
  \/ GapWindowOpen
  \/ ChunkFetch

SpecChunks == Init /\ [][NextChunks]_vars

(***************************************************************************)
(* A silence long enough for the buffer to overflow.  The exchange has a   *)
(* kline for every second; after one message the stream is silent for      *)
(* close to three hours, and the gap check that follows backfills about    *)
(* KLINES_MAXLEN klines, merges them into the buffer and aggregates them.  *)
(***************************************************************************)
\* The silence after the message: a window of less than one chunk, and
\* windows of a few klines less and a few klines more than the capacity of
\* the buffer.
LongSilences ==
  {400000, (KLINES_MAXLEN + 1) * 1000, (KLINES_MAXLEN + 3) * 1000,
   (KLINES_MAXLEN + 16) * 1000}

\* time.sleep between loop iterations while the stream is silent.
LongSilence ==
  /\ pc = "sleep"
  /\ now = last_kline_time
  /\ \E d \in LongSilences : now' = now + d
  /\ UNCHANGED <<aggVars, wsVars, gapVars, mainVars, hist, indVars, storeVars>>

NextOverflow ==
  \/ ChunkMessage
  \/ LongSilence
  \/ process_new_data_begin
  \/ process_new_data_end
  \/ GapDecide
  \/ HealthSkip
  \/ LoopNext
  \/ GapCheckBegin
  \/ GapWindowOpen
  \/ ChunkFetch
  \/ GapFinish
  \/ process_gap_data_begin
  \/ process_gap_data_end

SpecOverflow == Init /\ [][NextOverflow]_vars

(***************************************************************************)
(* The start of main(): prefetch_historical_data runs before the stream is *)
(* started and before the loop; the loop that follows is the one of the    *)
(* retry specification, with the small-window exit of a gap-recovery run.  *)
(***************************************************************************)
\* The globals of historic_df_live.py as the module defines them (lines
\* 60-91), with the main thread about to call prefetch_historical_data
\* (line 975), range_size already set by get_symbol_ticksize.
InitPrefetch ==
  /\ range_size = 1
  /\ klines_data = <<>>
  /\ current_bar = <<>>
  /\ bar_klines = <<>>
  /\ df = <<>>
  /\ csv_file = <<>>
  /\ csv_tmp = <<>>
  /\ csv_mtime = 0
  /\ agg_log = <<>>
  /\ next_id = 1
  /\ fed = 0
  /\ now = 0
  /\ pc = "prefetch_start"
  /\ data_lock = "free"
  /\ all_completed_bars = <<>>
  /\ loop_time = 0
  /\ last_gap_check = 0
  /\ last_health_check = 0
  /\ ws_connected = FALSE
  /\ ws_reconnect_delay = WS_INITIAL_RECONNECT_DELAY
  /\ ws_reconnection_detected = FALSE
  /\ last_kline_time = NoTime
  /\ last_successful_ws_update = NoTime
  /\ last_gap_fill_time = NoTime
  /\ gap_fill_retry_count = 0
  /\ gap_filling_in_progress = FALSE
  /\ data_gap_filling = FALSE
  /\ prefetch_completed = FALSE
  /\ gap = GapIdle
  /\ hist = HistInit
  /\ IndIdle

\* Line 239: prefetch_historical_data raises data_gap_filling.
PrefetchBegin ==
  /\ pc = "prefetch_start"
  /\ data_gap_filling' = TRUE
  /\ pc' = "prefetch"
  /\ UNCHANGED <<aggVars, wsVars, last_successful_ws_update, last_gap_fill_time,
                 gap_fill_retry_count, gap_filling_in_progress,
                 prefetch_completed, gap, data_lock, all_completed_bars,
                 loop_time, last_gap_check, last_health_check, envVars,
                 indVars, storeVars>>

\* The chunk loop of prefetch_historical_data, lines 250-256.
RECURSIVE prefetch_chunks(_, _, _)
prefetch_chunks(current_start, end_time, answered) ==
  IF current_start >= end_time THEN <<>>
  ELSE LET current_end == Min2(current_start + chunk_size_ms, end_time)
       IN  (IF answered
            THEN fetch_historical_klines(current_start, current_end)
            ELSE <<>>)
           \o prefetch_chunks(current_end + 1, end_time, answered)

\* Lines 241-274: the window of PrefetchMs before now is fetched (or every
\* request fails and fetch_historical_klines returns []), the klines are
\* appended to the buffer, the watermark is set and the flags are settled.
PrefetchEnd ==
  /\ pc = "prefetch"
  /\ data_lock = "free"
  /\ \E answered \in BOOLEAN :
       LET all_historical_data ==
             Relabel(prefetch_chunks(now - PrefetchMs, now, answered), next_id)
       IN  /\ klines_data' = DequeKeep(klines_data \o all_historical_data)
           /\ next_id' = next_id + Len(all_historical_data)
           /\ hist' = [hist EXCEPT
                 !.appended_ts = @ \cup {all_historical_data[i].timestamp :
                                           i \in 1..Len(all_historical_data)},
                 !.evicted = @ \cup DequeDropped(klines_data \o all_historical_data)]
  /\ last_successful_ws_update' = now
  /\ data_gap_filling' = FALSE
  /\ prefetch_completed' = TRUE
  /\ pc' = "process"
  /\ UNCHANGED <<range_size, current_bar, bar_klines, df, csv_file, csv_mtime,
                 agg_log, fed, ws_connected, ws_reconnect_delay,
                 ws_reconnection_detected, last_kline_time, last_gap_fill_time,
                 gap_fill_retry_count, gap_filling_in_progress, gap, data_lock,
                 all_completed_bars, loop_time, last_gap_check,
                 last_health_check, now, indVars, storeVars>>

\* The stream is silent until a gap-recovery run has failed; a message that
\* arrives then moves the watermark before the run that retries.
LateMessage == gap_fill_retry_count > 0 /\ LiveMessage

NextPrefetch ==
  \/ PrefetchBegin
  \/ PrefetchEnd
  \/ LateMessage
  \/ RetrySleep
  \/ process_new_data_begin
  \/ process_new_data_end
  \/ GapDecide
  \/ GapCheckReturnEarly
  \/ GapCheckBegin
  \/ GapWindowSkip
  \/ GapWindowOpen
  \/ GapFetchChunk
  \/ GapFetchError
  \/ GapFinish
  \/ GapException
  \/ process_gap_data_begin
  \/ process_gap_data_end
  \/ HealthSkip
  \/ HealthCheck
  \/ StartWebsocketOk
  \/ StartWebsocketFail
  \/ LoopNext

SpecPrefetch == InitPrefetch /\ [][NextPrefetch]_vars

(***************************************************************************)
(* The aggregator specification: the feed thread delivers klines of any    *)
(* price, one per second, while the main loop drains them; no timer of the *)
(* loop falls due within the run.                                          *)
(***************************************************************************)
\* The closes of the klines, in ticks: with the range sizes below they put
\* moves of 0, 1, 1.5, 2 and 3 ranges within reach.
Prices == {0, 1, 2, 3}

\* The wick of a kline: high and low lie this far from the close.
Wicks == {0, 1}

\* A live message whose kline the exchange is free to choose, with its
\* close among closes and its wick among wicks.
Feed(closes, wicks) ==
  /\ fed < MaxEvents
  /\ \E c \in closes, w \in wicks :
       LET t == now + KLINE_INTERVAL_SECONDS * 1000
           k == Kline(next_id, t, c, c + w, c - w, c, 1 + (c % 2), c, 1 + w)
       IN  /\ now' = t
           /\ kline_handler(k, t)
  /\ UNCHANGED <<range_size, current_bar, bar_klines, df, csv_file, csv_mtime,
                 agg_log, ws_reconnect_delay, ws_reconnection_detected,
                 gapVars, mainVars, indVars, storeVars>>

\* The range sizes the aggregator is run with, in ticks.
AggFeed == Feed(Prices, Wicks)

RangeSizes == {1, 2}

InitAgg == (\E r \in RangeSizes : MainStarted(r)) /\ IndIdle

\* The rest of a loop iteration when neither timer is due: lines 998, 999,
\* 1006 and 1020.
LoopIdle ==
  /\ pc = "gap_decide"
  /\ now - last_gap_check < GAP_CHECK_INTERVAL * 1000
  /\ now - last_health_check < HEALTH_CHECK_INTERVAL * 1000
  /\ loop_time' = now
  /\ pc' = "process"
  /\ UNCHANGED <<aggVars, wsVars, gapVars, data_lock, all_completed_bars,
                 last_gap_check, last_health_check, envVars, indVars, storeVars>>

NextAgg ==
  \/ AggFeed
  \/ process_new_data_begin
  \/ process_new_data_end
  \/ LoopIdle

SpecAgg == InitAgg /\ [][NextAgg]_vars

(***************************************************************************)
(* The indicator process beside the aggregator.                            *)
(***************************************************************************)
\* pd.read_csv of the bar table: an Open Time cell parses back to the
\* wall-clock instant it spells, the representation the table already has.
load_range_bars_only(table) == table

\* The columns save_indicators_to_csv writes, of every row.
save_indicators_to_csv(rows) ==
  [i \in 1..Len(rows) |->
     [OpenTime |-> rows[i].OpenTime, Open |-> rows[i].Open,
      High |-> rows[i].High, Low |-> rows[i].Low, Close |-> rows[i].Close,
      Volume |-> rows[i].Volume, rsi |-> rows[i].rsi,
      rsi_ma50 |-> rows[i].rsi_ma50, ma |-> rows[i].ma, fib |-> rows[i].fib]]

\* df.to_csv(filename) in save_indicators_to_csv.  Written in one piece, the
\* file holds the rows at once; written as the code writes it, the file is
\* opened for writing, which empties it, and the rows follow.
WriteIndicators(in_one_piece, go, rows) ==
  IF ~go THEN UNCHANGED <<indicators_csv, ind_pending, hist>>
  ELSE IF in_one_piece
  THEN /\ indicators_csv' = rows
       /\ UNCHANGED <<ind_pending, hist>>
  ELSE /\ indicators_csv' = <<>>
       /\ ind_pending' = rows
       /\ hist' = [hist EXCEPT !.ind_before = indicators_csv]

\* One iteration of the loop of continuous_indicator_calculator; the process
\* only runs if the bar table existed when it started.
IndicatorStep(in_one_piece) ==
  /\ csv_mtime > 0
  /\ ind_pending = <<>>
  /\ LET is_updated == last_modified_time = NoTime \/ csv_mtime > last_modified_time
         loaded == load_range_bars_only(csv_file)
     IN  /\ last_modified_time' = IF is_updated THEN csv_mtime ELSE last_modified_time
         /\ IF (is_updated \/ ~engine_initialized) /\ loaded # <<>>
            THEN IF ~engine_initialized
                 THEN LET r == initialize_from_history(engine, loaded)
                      IN  /\ engine' = r.engine
                          /\ engine_initialized' = r.ok
                          /\ WriteIndicators(in_one_piece, r.ok,
                               save_indicators_to_csv(r.engine.current_df))
                 ELSE LET last_time == engine.last_processed_time
                          new_data == IF last_time # NoTime
                                      THEN SelectSeq(loaded,
                                             LAMBDA row : row.OpenTime > last_time)
                                      ELSE loaded
                          r == process_new_data(engine, new_data)
                      IN  /\ engine' = IF new_data # <<>> THEN r.engine ELSE engine
                          /\ WriteIndicators(in_one_piece, new_data # <<>> /\ r.ok,
                               save_indicators_to_csv(r.engine.current_df))
                          /\ UNCHANGED engine_initialized
            ELSE UNCHANGED <<engine, engine_initialized, indicators_csv,
                             ind_pending, hist>>
  /\ UNCHANGED <<aggVars, wsVars, gapVars, mainVars, now, csv_tmp,
                 engine_replay, bars_in, ind_pos>>

\* The iteration with the indicator table written in one piece.
IndicatorPoll == IndicatorStep(TRUE)

NextBars ==
  \/ AggFeed
  \/ process_new_data_begin
  \/ process_new_data_end
  \/ LoopIdle
  \/ IndicatorPoll

SpecBars == InitAgg /\ [][NextBars]_vars

(***************************************************************************)
(* The two tables on disk.  The aggregator and the indicator process run   *)
(* as above, but a file is written row after row, so that every content a  *)
(* reader can find in it is a state; and the shutdown signal may arrive at *)
(* any point of the main loop.  With a range of one tick every kline after *)
(* the first is a jump of two ranges and completes two bars.               *)
(***************************************************************************)
StoreCloses == {0, 2}

StoreFeed == pc # "exited" /\ Feed(StoreCloses, {0})

\* klines_data.clear(), the release of data_lock, and process_new_data up
\* to its call of save_csv.
ProcessConcat ==
  /\ pc = "process_locked"
  /\ data_lock = "main"
  /\ klines_data' = <<>>
  /\ data_lock' = "free"
  /\ df' = df \o all_completed_bars
  /\ all_completed_bars' = <<>>
  /\ pc' = IF all_completed_bars # <<>> THEN "save_open" ELSE "gap_decide"
  /\ hist' = IF all_completed_bars # <<>>
             THEN [hist EXCEPT !.file_at_save = csv_file] ELSE hist
  /\ UNCHANGED <<range_size, current_bar, bar_klines, csv_file, csv_mtime,
                 agg_log, next_id, fed, wsVars, gapVars, loop_time,
                 last_gap_check, last_health_check, now, indVars, storeVars>>

\* save_csv: df.to_csv(temp_file) creates the temporary file, empty.
SaveCsvOpen ==
  /\ pc = "save_open"
  /\ csv_tmp' = <<>>
  /\ pc' = "save_write"
  /\ UNCHANGED <<aggVars, wsVars, gapVars, data_lock, all_completed_bars,
                 loop_time, last_gap_check, last_health_check, envVars,
                 indVars, ind_pending>>

SaveCsvWrite_in_place ==
  /\ pc = "save_write"
  /\ Len(csv_tmp) < Len(df)
  /\ csv_tmp' = Append(csv_tmp, df[Len(csv_tmp) + 1])
  /\ csv_file' = csv_tmp'
  /\ UNCHANGED <<range_size, klines_data, current_bar, bar_klines, df,
                 csv_mtime, agg_log, next_id, fed, wsVars, gapVars, mainVars,
                 envVars, indVars, ind_pending>>

\* save_csv: df.to_csv(temp_file) writes the next row to the temporary file.
SaveCsvWrite ==
  /\ pc = "save_write"
  /\ Len(csv_tmp) < Len(df)
  /\ csv_tmp' = Append(csv_tmp, df[Len(csv_tmp) + 1])
  /\ csv_file' = csv_file
  /\ UNCHANGED <<range_size, klines_data, current_bar, bar_klines, df,
                 csv_mtime, agg_log, next_id, fed, wsVars, gapVars, mainVars,
                 envVars, indVars, ind_pending>>

\* save_csv: os.replace(temp_file, csv_file), once every row is written.
SaveCsvReplace ==
  /\ pc = "save_write"
  /\ Len(csv_tmp) = Len(df)
  /\ csv_file' = csv_tmp
  /\ csv_mtime' = csv_mtime + 1
  /\ csv_tmp' = <<>>
  /\ pc' = "gap_decide"
  /\ UNCHANGED <<range_size, klines_data, current_bar, bar_klines, df,
                 agg_log, next_id, fed, wsVars, gapVars, data_lock,
                 all_completed_bars, loop_time, last_gap_check,
                 last_health_check, envVars, indVars, ind_pending>>

\* save_csv: to_csv or os.replace raises; the error is reported and the
\* table file is left as it was.
SaveCsvError ==
  /\ pc \in {"save_open", "save_write"}
  /\ pc' = "gap_decide"
  /\ UNCHANGED <<aggVars, wsVars, gapVars, data_lock, all_completed_bars,
                 loop_time, last_gap_check, last_health_check, envVars,
                 indVars, storeVars>>

\* signal_handler: SIGINT interrupts the main thread wherever it is; the
\* handler stops the socket, calls save_csv and ends the process.
Shutdown ==
  /\ pc # "exited"
  /\ csv_file' = save_csv(df)
  /\ csv_mtime' = IF df # <<>> THEN csv_mtime + 1 ELSE csv_mtime
  /\ csv_tmp' = <<>>
  /\ pc' = "exited"
  /\ UNCHANGED <<range_size, klines_data, current_bar, bar_klines, df,
                 agg_log, next_id, fed, wsVars, gapVars, data_lock,
                 all_completed_bars, loop_time, last_gap_check,
                 last_health_check, envVars, indVars, ind_pending>>

\* The iteration of the indicator process up to the opening of its file.
IndicatorCompute == IndicatorStep(FALSE)

\* df[available_columns].to_csv(filename) writes the next row.
IndicatorWrite ==
  /\ ind_pending # <<>>
  /\ indicators_csv' = Append(indicators_csv, Head(ind_pending))
  /\ ind_pending' = Tail(ind_pending)
  /\ UNCHANGED <<aggVars, wsVars, gapVars, mainVars, envVars, csv_tmp, engine,
                 engine_initialized, last_modified_time, engine_replay,
                 bars_in, ind_pos>>

NextStore ==
  \/ StoreFeed
  \/ process_new_data_begin
  \/ ProcessConcat
  \/ SaveCsvOpen
  \/ SaveCsvWrite
  \/ SaveCsvReplace
  \/ SaveCsvError
  \/ LoopIdle
  \/ Shutdown
  \/ IndicatorCompute
  \/ IndicatorWrite

SpecStore == Init /\ [][NextStore]_vars

(***************************************************************************)
(* The aggregator under large jumps: closes that lie two, two and a half,  *)
(* three and five ranges apart.                                            *)
(***************************************************************************)
JumpCloses == {0, 2, 5}

JumpFeed == Feed(JumpCloses, Wicks)

NextJump ==
  \/ JumpFeed
  \/ process_new_data_begin
  \/ process_new_data_end
  \/ LoopIdle

SpecJump == InitAgg /\ [][NextJump]_vars

(***************************************************************************)
(* Prices with a fractional part.  float(kline["c"]) and float(tickSize)   *)
(* are IEEE-754 binary64 numbers, and the aggregator adds, subtracts and   *)
(* floor-divides them with rounding to nearest, ties to even.  A           *)
(* non-negative binary64 number is represented by the set of the exponents *)
(* of the powers of two that sum to it: 0.5 is {-1}, 0.75 is {-1, -2}.     *)
(* With whole-number prices and range_size no operation of the aggregator  *)
(* rounds, and the integer arithmetic of the other specifications is what  *)
(* the program computes.                                                   *)
(***************************************************************************)
\* The precision of a Python float: 53 significant bits.
MANTISSA_BITS == 53

SetMax(S) == CHOOSE i \in S : \A j \in S : j <= i

\* The exact sum: the bits that differ, plus the carries one place up.
RECURSIVE ExactAdd(_, _)
ExactAdd(A, B) ==
  IF B = {} THEN A
  ELSE ExactAdd((A \ B) \cup (B \ A), {i + 1 : i \in A \cap B})

\* The exact difference A - B, for A >= B: the bits that differ, minus the
\* borrows one place up.
RECURSIVE ExactSub(_, _)
ExactSub(A, B) ==
  IF B = {} THEN A
  ELSE ExactSub((A \ B) \cup (B \ A), {i + 1 : i \in B \ A})

DoubleLess(A, B) == A # B /\ SetMax((A \ B) \cup (B \ A)) \in B

DoubleLE(A, B) == A = B \/ DoubleLess(A, B)

\* Rounding of an exact value to MANTISSA_BITS significant bits, to nearest,
\* ties to even.
RoundToDouble(A) ==
  IF A = {} THEN {}
  ELSE LET cut == SetMax(A) - (MANTISSA_BITS - 1)
           kept == {i \in A : i >= cut}
           guard == (cut - 1) \in A
           sticky == \E i \in A : i < cut - 1
       IN  IF guard /\ (sticky \/ cut \in A) THEN ExactAdd(kept, {cut}) ELSE kept

\* a + b
float_add(a, b) == RoundToDouble(ExactAdd(a, b))

\* abs(a - b)
float_abs_sub(a, b) ==
  RoundToDouble(IF DoubleLess(a, b) THEN ExactSub(b, a) ELSE ExactSub(a, b))

\* a - b, for a >= b
float_sub(a, b) == RoundToDouble(ExactSub(a, b))

\* int(a // b): float floor division gives the floor of the exact quotient.
RECURSIVE float_floordiv(_, _)
float_floordiv(a, b) ==
  IF DoubleLess(a, b) THEN 0 ELSE 1 + float_floordiv(ExactSub(a, b), b)

\* float("0.k"), k a decimal digit: k / 10 correctly rounded.  TenthsRem is
\* the remainder of the long division of k by 10 after j binary places,
\* TenthsBit the bit of k / 10 at exponent -j.
RECURSIVE TenthsRem(_, _)
TenthsRem(k, j) == IF j = 0 THEN k ELSE (2 * TenthsRem(k, j - 1)) % 10

TenthsBit(k, j) == (2 * TenthsRem(k, j - 1)) \div 10

float_of_tenths(k) ==
  LET top == CHOOSE j \in 1..4 : TenthsBit(k, j) = 1
                                 /\ \A i \in 1..(j - 1) : TenthsBit(k, i) = 0
      last == top + MANTISSA_BITS - 1
      kept == {-j : j \in {i \in top..last : TenthsBit(k, i) = 1}}
      guard == TenthsBit(k, last + 1) = 1
      sticky == TenthsRem(k, last + 1) # 0
  IN  IF guard /\ (sticky \/ TenthsBit(k, last) = 1)
      THEN ExactAdd(kept, {-last}) ELSE kept

DoubleMax(a, b) == IF DoubleLess(a, b) THEN b ELSE a

DoubleMin(a, b) == IF DoubleLess(b, a) THEN b ELSE a

\* check_range_completion, lines 314-319: span = high - low in binary64.
check_range_completion_double(high, low) ==
  DoubleLE(range_size, float_sub(high, low))

\* Lines 375-376 and 552-553: int(abs(price - open_price) // range_size).
possible_bars_double(price, open_price) ==
  float_floordiv(float_abs_sub(price, open_price), range_size)

\* Line 413: remaining_move = abs(price - completed_close).
remaining_move(price, completed_close) == float_abs_sub(price, completed_close)

\* handle_large_price_jump, lines 378-463, in binary64.
handle_large_price_jump_double(st, price, timestamp, kline_data) ==
  LET cur == st.cb[1]
      open_price == cur.open_price
      up == DoubleLess(open_price, price)
      completed_high == IF up THEN float_add(open_price, range_size) ELSE cur.high
      completed_low == IF up THEN cur.low ELSE float_sub(open_price, range_size)
      completed_close == IF up THEN completed_high ELSE completed_low
      completed_bar == create_completed_bar(open_price, completed_high,
                         completed_low, completed_close, st.bk,
                         cur.open_time, timestamp)
      up2 == DoubleLess(completed_close, price)
      additional_open == completed_close
      additional_high == IF up2 THEN price ELSE additional_open
      additional_low == IF up2 THEN additional_open ELSE price
      additional_close == price
      additional_bar == create_completed_bar(additional_open, additional_high,
                          additional_low, additional_close, <<kline_data>>,
                          timestamp, timestamp)
  IN  IF DoubleLE(range_size, remaining_move(price, completed_close))
      THEN LET ncb == <<NewBar(additional_close, additional_close,
                               additional_close, additional_close,
                               timestamp, timestamp)>>
           IN  AggState(ncb, <<>>,
                 st.out \o <<completed_bar, additional_bar>>,
                 Append(st.log,
                   [LogEntry(kline_data, st, "jump", <<completed_bar, additional_bar>>)
                     EXCEPT !.cb_after = ncb]))
      ELSE LET ncb == <<NewBar(completed_close, DoubleMax(completed_close, price),
                               DoubleMin(completed_close, price), price,
                               timestamp, timestamp)>>
           IN  AggState(ncb, <<kline_data>>,
                 st.out \o <<completed_bar>>,
                 Append(st.log,
                   [LogEntry(kline_data, st, "jump", <<completed_bar>>)
                     EXCEPT !.cb_after = ncb]))

\* process_kline_into_bar, lines 468-527, in binary64.
process_kline_into_bar_double(st, kline_data) ==
  LET price == kline_data.close
      timestamp == kline_data.close_time
      bk1 == Append(st.bk, kline_data)
  IN  IF st.cb = <<>>
      THEN LET ncb == <<NewBar(price, kline_data.high, kline_data.low, price,
                               kline_data.open_time, timestamp)>>
           IN  AggState(ncb, bk1, st.out,
                 Append(st.log, [LogEntry(kline_data, st, "init", <<>>)
                                  EXCEPT !.cb_after = ncb]))
      ELSE LET cur == st.cb[1]
               h == DoubleMax(cur.high, kline_data.high)
               l == DoubleMin(cur.low, kline_data.low)
               upd == <<NewBar(cur.open_price, h, l, price, cur.open_time, timestamp)>>
           IN  IF check_range_completion_double(h, l)
               THEN LET completed_bar == create_completed_bar(cur.open_price,
                                           h, l, price, bk1, cur.open_time, timestamp)
                        ncb == <<NewBar(price, price, price, price,
                                        timestamp, timestamp)>>
                    IN  AggState(ncb, <<>>, Append(st.out, completed_bar),
                          Append(st.log,
                            [LogEntry(kline_data, st, "ordinary", <<completed_bar>>)
                              EXCEPT !.cb_after = ncb]))
               ELSE AggState(upd, bk1, st.out,
                      Append(st.log, [LogEntry(kline_data, st, "ordinary", <<>>)
                                       EXCEPT !.cb_after = upd]))

\* The for loop of create_range_bar_from_klines, lines 543-562.
RECURSIVE AggLoopDouble(_, _)
AggLoopDouble(st, ks) ==
  IF ks = <<>> THEN st
  ELSE LET kline == Head(ks)
           st1 == IF st.cb # <<>>
                     /\ possible_bars_double(kline.close, st.cb[1].open_price) >= 2
                  THEN handle_large_price_jump_double(st, kline.close,
                                                      kline.close_time, kline)
                  ELSE process_kline_into_bar_double(st, kline)
       IN  AggLoopDouble(st1, Tail(ks))

\* The prices of the events, in tenths: "0.1" to "0.6"; the tick size of the
\* symbol is "0.1" and range_size is the tick size (lines 166-168).
DoubleTenths == 1..MaxTenths

\* kline_handler with a kline whose open, high, low and close are one
\* price.
DoubleFeed ==
  /\ fed < MaxEvents
  /\ \E c \in DoubleTenths :
       LET t == now + KLINE_INTERVAL_SECONDS * 1000
           price == float_of_tenths(c)
           k == Kline(next_id, t, price, price, price, price, 1, 1, 1)
       IN  /\ now' = t
           /\ kline_handler(k, t)
  /\ UNCHANGED <<range_size, current_bar, bar_klines, df, csv_file, csv_mtime,
                 agg_log, ws_reconnect_delay, ws_reconnection_detected,
                 gapVars, mainVars, indVars, storeVars>>

\* with data_lock: the loop over list(klines_data), lines 538-562.
DoubleProcessAcquire ==
  /\ pc = "process"
  /\ UNCHANGED <<indVars, storeVars>>
  /\ data_lock = "free"
  /\ IF klines_data = <<>>
     THEN /\ pc' = AfterProcess("process")
          /\ UNCHANGED <<current_bar, bar_klines, agg_log, all_completed_bars, data_lock>>
     ELSE LET st == AggLoopDouble(AggState(current_bar, bar_klines, <<>>, agg_log),
                                  klines_data)
          IN  /\ current_bar' = st.cb
              /\ bar_klines' = st.bk
              /\ agg_log' = st.log
              /\ all_completed_bars' = st.out
              /\ data_lock' = "main"
              /\ pc' = "process_locked"
  /\ UNCHANGED <<range_size, klines_data, df, csv_file, csv_mtime, next_id, fed,
                 wsVars, gapVars, loop_time, last_gap_check, last_health_check,
                 envVars>>

InitDouble == MainStarted(float_of_tenths(1)) /\ IndIdle

NextDouble ==
  \/ DoubleFeed
  \/ DoubleProcessAcquire
  \/ process_new_data_end
  \/ LoopIdle

SpecDouble == InitDouble /\ [][NextDouble]_vars

(***************************************************************************)
(* Startup.  The process is started with a configured RANGE_SIZE and the   *)
(* exchange answers get_symbol_info with nothing (unknown symbol) or with  *)
(* the symbol's tickSize; sizes are in units of the smallest price step.   *)
(* After get_symbol_ticksize the aggregator runs as in the store           *)
(* specification.                                                          *)
(***************************************************************************)
ConfiguredRangeSizes == {-2, -1, 0, 1, 2, 3}

TickSizes == {1, 2}

\* get_symbol_ticksize: the value it leaves in range_size, or the exit.
get_symbol_ticksize(RANGE_SIZE, symbol_found, tick_size) ==
  IF ~symbol_found THEN [exit |-> TRUE, range_size |-> 0]
  ELSE IF RANGE_SIZE = 0 THEN [exit |-> FALSE, range_size |-> tick_size]
  ELSE IF RANGE_SIZE % tick_size # 0
  THEN [exit |-> FALSE,
        range_size |-> ((RANGE_SIZE \div tick_size) + 1) * tick_size]
  ELSE [exit |-> FALSE, range_size |-> RANGE_SIZE]

InitStart ==
  /\ \E r \in ConfiguredRangeSizes, found \in BOOLEAN, t \in TickSizes :
       MainGlobals(0, "startup",
                   [HistInit EXCEPT !.RANGE_SIZE = r, !.symbol_found = found,
                                    !.tick_size = t])
  /\ IndIdle

\* main(), lines 972-988: get_symbol_ticksize, then the prefetch (empty) and
\* the start of the stream.
Startup ==
  /\ pc = "startup"
  /\ LET g == get_symbol_ticksize(hist.RANGE_SIZE, hist.symbol_found,
                                  hist.tick_size)
     IN  /\ range_size' = g.range_size
         /\ pc' = IF g.exit THEN "exited" ELSE "process"
  /\ UNCHANGED <<klines_data, current_bar, bar_klines, df, csv_file, csv_mtime,
                 agg_log, next_id, fed, wsVars, gapVars, data_lock,
                 all_completed_bars, loop_time, last_gap_check,
                 last_health_check, envVars, indVars, storeVars>>

StartFeed == pc \notin {"startup", "exited"} /\ Feed(StoreCloses, {0})

\* Line 553, price_move // range_size, is reached with range_size = 0: by
\* the second event of a drain, or by the first if a bar is in progress.
ZeroDivision ==
  /\ range_size = 0
  /\ klines_data # <<>>
  /\ current_bar # <<>> \/ Len(klines_data) >= 2

StartProcess == ~ZeroDivision /\ process_new_data_begin

\* ZeroDivisionError in create_range_bar_from_klines: the events before the
\* failing one are aggregated, the buffer is not cleared, and the exception
\* ends main() through its handler (lines 1027-1040), which calls save_csv.
ProcessFails ==
  /\ pc = "process"
  /\ data_lock = "free"
  /\ ZeroDivision
  /\ LET st == IF current_bar = <<>>
               THEN process_kline_into_bar(
                      AggState(current_bar, bar_klines, <<>>, agg_log),
                      klines_data[1])
               ELSE AggState(current_bar, bar_klines, <<>>, agg_log)
     IN  /\ current_bar' = st.cb
         /\ bar_klines' = st.bk
         /\ agg_log' = st.log
  /\ csv_file' = save_csv(df)
  /\ csv_mtime' = IF df # <<>> THEN csv_mtime + 1 ELSE csv_mtime
  /\ pc' = "exited"
  /\ UNCHANGED <<range_size, klines_data, df, next_id, fed, wsVars, gapVars,
                 data_lock, all_completed_bars, loop_time, last_gap_check,
                 last_health_check, envVars, indVars, storeVars>>

NextStart ==
  \/ Startup
  \/ StartFeed
  \/ StartProcess
  \/ ProcessFails
  \/ process_new_data_end
  \/ LoopIdle

SpecStart == InitStart /\ [][NextStart]_vars

(***************************************************************************)
(* Two engines and one bar sequence: one engine replays the whole          *)
(* sequence, the other is initialised with the first bar and given the     *)
(* rest one bar at a time.  Consecutive bars of the table open at the same *)
(* time or one second apart (a large jump leaves two bars with one Open    *)
(* Time).                                                                  *)
(***************************************************************************)
OpenTimeSteps == {0, 1000}

BarOf(closes, steps, i) ==
  LET RECURSIVE T(_)
      T(j) == IF j = 1 THEN format_timestamp(0) ELSE T(j - 1) + steps[j]
      o == IF i = 1 THEN closes[1] ELSE closes[i - 1]
  IN  [OpenTime |-> T(i), Open |-> o, High |-> Max2(o, closes[i]),
       Low |-> Min2(o, closes[i]), Close |-> closes[i], Volume |-> 1]

\* The bar sequences of length 1 to max_len.
BarSeqs(max_len) ==
  UNION {{[i \in 1..n |-> BarOf(closes, steps, i)] :
            closes \in [1..n -> 0..MaxClose], steps \in [2..n -> OpenTimeSteps]} :
         n \in 1..max_len}

InitInd ==
  /\ MainStarted(1)
  /\ engine = StatefulIndicatorEngine
  /\ engine_initialized = FALSE
  /\ last_modified_time = NoTime
  /\ indicators_csv = <<>>
  /\ engine_replay = StatefulIndicatorEngine
  /\ bars_in \in BarSeqs(MaxBars)
  /\ ind_pos = 0
  /\ ind_pending = <<>>

\* The whole sequence through initialize_from_history.
ReplayHistory ==
  /\ ~engine_replay.initialized
  /\ engine_replay' = initialize_from_history(engine_replay, bars_in).engine
  /\ UNCHANGED <<aggVars, wsVars, gapVars, mainVars, envVars, storeVars, engine,
                 engine_initialized, last_modified_time, indicators_csv,
                 bars_in, ind_pos>>

\* The first bar through initialize_from_history.
FirstBar ==
  /\ ind_pos = 0
  /\ LET r == initialize_from_history(engine, <<bars_in[1]>>)
     IN  /\ engine' = r.engine
         /\ engine_initialized' = r.ok
  /\ ind_pos' = 1
  /\ UNCHANGED <<aggVars, wsVars, gapVars, mainVars, envVars, storeVars,
                 engine_replay,
                 last_modified_time, indicators_csv, bars_in>>

\* The next bar through process_new_data.
NextBar ==
  /\ ind_pos > 0
  /\ ind_pos < Len(bars_in)
  /\ engine' = process_new_data(engine, <<bars_in[ind_pos + 1]>>).engine
  /\ ind_pos' = ind_pos + 1
  /\ UNCHANGED <<aggVars, wsVars, gapVars, mainVars, envVars, storeVars,
                 engine_replay,
                 engine_initialized, last_modified_time, indicators_csv, bars_in>>

NextInd ==
  \/ ReplayHistory
  \/ FirstBar
  \/ NextBar

SpecInd == InitInd /\ [][NextInd]_vars

(***************************************************************************)
(* One fresh engine and a growing bar table: the engine replays the table  *)
(* it finds, of one bar or more, and is then given the bars that follow    *)
(* one at a time.  A bar opens where the bar before it closed.             *)
(***************************************************************************)
\* The closes of the bars, in ticks.
FeedCloses == {0, 1}

\* A bar of the table.  Its Volume numbers the bars, so that a bar can be
\* told from another bar with the same times and prices.
FeedBar(open_time, o, c, serial) ==
  [OpenTime |-> open_time, Open |-> o, High |-> Max2(o, c),
   Low |-> Min2(o, c), Close |-> c, Volume |-> serial]

\* The bar table with the given closes, one bar per second.
HistoryOf(closes) ==
  [i \in 1..Len(closes) |->
     FeedBar(format_timestamp((i - 1) * 1000),
             IF i = 1 THEN closes[1] ELSE closes[i - 1], closes[i], i)]

\* The columns of the bar table, of every row of the engine's table.
BarColumns(rows) ==
  [i \in 1..Len(rows) |->
     [OpenTime |-> rows[i].OpenTime, Open |-> rows[i].Open,
      High |-> rows[i].High, Low |-> rows[i].Low, Close |-> rows[i].Close,
      Volume |-> rows[i].Volume]]

InitFeed == MainStarted(1) /\ IndIdle

\* The table found at start goes through initialize_from_history.
FeedHistory ==
  /\ ~engine.initialized
  /\ \E n \in 1..MaxBars :
       \E closes \in [1..n -> FeedCloses] :
         LET r == initialize_from_history(engine, HistoryOf(closes))
         IN  /\ engine' = r.engine
             /\ engine_initialized' = r.ok
  /\ UNCHANGED <<aggVars, wsVars, gapVars, mainVars, envVars, storeVars,
                 engine_replay,
                 last_modified_time, indicators_csv, bars_in, ind_pos>>

\* The next bar of the table goes through process_new_data; it opens at the
\* Open Time of the bar before it or one second later.
FeedNext ==
  /\ engine.initialized
  /\ Len(engine.current_df) < MaxFeed
  /\ \E c \in FeedCloses, d \in OpenTimeSteps :
       LET last == engine.current_df[Len(engine.current_df)]
       IN  engine' = process_new_data(engine,
                       <<FeedBar(last.OpenTime + d, last.Close, c,
                                 last.Volume + 1)>>).engine
  /\ ind_pos' = 0
  /\ UNCHANGED <<aggVars, wsVars, gapVars, mainVars, envVars, storeVars,
                 engine_replay,
                 engine_initialized, last_modified_time, indicators_csv,
                 bars_in>>

\* The whole table, the bars already processed and the next one, goes
\* through process_new_data; ind_pos counts the rows submitted again.
FeedTable ==
  /\ engine.initialized
  /\ Len(engine.current_df) < MaxFeed
  /\ \E c \in FeedCloses :
       LET last == engine.current_df[Len(engine.current_df)]
       IN  engine' = process_new_data(engine,
                       Append(BarColumns(engine.current_df),
                              FeedBar(last.OpenTime + 1000, last.Close, c,
                                      last.Volume + 1))).engine
  /\ ind_pos' = Len(engine.current_df)
  /\ UNCHANGED <<aggVars, wsVars, gapVars, mainVars, envVars, storeVars,
                 engine_replay, engine_initialized, last_modified_time,
                 indicators_csv, bars_in>>

NextFeed ==
  \/ FeedHistory
  \/ FeedNext
  \/ FeedTable

SpecFeed == InitFeed /\ [][NextFeed]_vars

(***************************************************************************)
(* Properties of the aggregator, stated over the history of processed      *)
(* events: each entry holds the event, the in-progress bar's open before   *)
(* it, the path it took, the bars it completed and the in-progress bar it  *)
(* left.                                                                   *)
(***************************************************************************)
LogIdx == 1..Len(agg_log)

Move(e) == e.kline.close - e.open_before

\* C1: every completed bar emitted by the ordinary path
\* (process_kline_into_bar) has High - Low >= range_size.
C1_OrdinaryBarsSpanRange ==
  \A i \in LogIdx :
    agg_log[i].path = "ordinary" =>
      \A j \in 1..Len(agg_log[i].bars) :
        agg_log[i].bars[j].High - agg_log[i].bars[j].Low >= range_size

\* An event took the ordinary path, completed a bar, and the bar is in the
\* bar table.
C1_Witness ==
  \E i \in LogIdx :
    /\ agg_log[i].path = "ordinary"
    /\ Len(agg_log[i].bars) = 1
    /\ \E j \in 1..Len(df) : df[j] = agg_log[i].bars[1]

\* C7: an event whose close is exactly 2 x range_size away from the
\* in-progress bar's open completes exactly two bars, and the sum of their
\* (Close - Open) is the move from the bar's open to the event's close.
C7_DoubleRangeTwoBars ==
  \A i \in LogIdx :
    LET e == agg_log[i]
    IN  (e.had_bar /\ Abs(Move(e)) = 2 * range_size) =>
          /\ Len(e.bars) = 2
          /\ (e.bars[1].Close - e.bars[1].Open)
               + (e.bars[2].Close - e.bars[2].Open) = Move(e)

\* An event moved exactly two ranges down from the in-progress bar's open
\* and its bars were emitted.
C7_Witness ==
  \E i \in LogIdx :
    /\ agg_log[i].had_bar
    /\ Move(agg_log[i]) = -2 * range_size
    /\ Len(agg_log[i].bars) = 2

\* C24: for any event whose close is at least 2 x range_size away from the
\* in-progress bar's open, also above 4 x range_size, at most two completed
\* bars are emitted for that event; the first closes exactly at
\* open + range_size (up move) or open - range_size (down move), and the
\* last closes exactly at the event's close.
C24_LargeJumpAtMostTwoBars ==
  \A i \in LogIdx :
    LET e == agg_log[i]
    IN  (e.had_bar /\ Abs(Move(e)) >= 2 * range_size) =>
          /\ Len(e.bars) \in {1, 2}
          /\ e.bars[1].Close = (IF Move(e) > 0 THEN e.open_before + range_size
                                               ELSE e.open_before - range_size)
          /\ e.bars[Len(e.bars)].Close = e.kline.close

\* An event moved more than four ranges from the in-progress bar's open,
\* and another moved between two and three ranges; both emitted their bars.
C24_Witness ==
  /\ \E i \in LogIdx :
       /\ agg_log[i].had_bar
       /\ Abs(Move(agg_log[i])) > 4 * range_size
       /\ Len(agg_log[i].bars) = 2
  /\ \E i \in LogIdx :
       /\ agg_log[i].had_bar
       /\ Abs(Move(agg_log[i])) > 2 * range_size
       /\ Abs(Move(agg_log[i])) <= 3 * range_size

OneAndAHalf(e) == e.had_bar /\ 2 * Abs(Move(e)) = 3 * range_size

\* C8 as stated: an event whose close is 1.5 x range_size away from the
\* in-progress bar's open completes exactly one bar, a part of the move lies
\* beyond that bar, and the new in-progress bar carries it from its open to
\* its close.
C8_NewBarCarriesRemainder ==
  \A i \in LogIdx :
    LET e == agg_log[i]
    IN  OneAndAHalf(e) =>
          /\ Len(e.bars) = 1
          /\ Move(e) - (e.bars[1].Close - e.bars[1].Open) # 0
          /\ e.cb_after[1].close_price - e.cb_after[1].open_price
               = Move(e) - (e.bars[1].Close - e.bars[1].Open)

\* C8 as the code has it: the event completes exactly one bar, the bar runs
\* from the in-progress bar's open to the event's close and so covers the
\* whole move, and the new in-progress bar opens flat at the event's close,
\* holding no event.
C8_NewBarStartsFlat ==
  \A i \in LogIdx :
    LET e == agg_log[i]
    IN  OneAndAHalf(e) =>
          /\ Len(e.bars) = 1
          /\ e.bars[1].Open = e.open_before
          /\ e.bars[1].Close = e.kline.close
          /\ e.cb_after[1].open_price = e.kline.close
          /\ e.cb_after[1].high = e.kline.close
          /\ e.cb_after[1].low = e.kline.close
          /\ e.cb_after[1].close_price = e.kline.close

\* An event moved one and a half ranges from the in-progress bar's open and
\* completed a bar.
C8_Witness ==
  \E i \in LogIdx :
    /\ OneAndAHalf(agg_log[i])
    /\ Len(agg_log[i].bars) = 1

(***************************************************************************)
(* Properties of the indicator engine.                                     *)
(***************************************************************************)
SameIndicators(a, b) ==
  /\ a.rsi = b.rsi
  /\ a.rsi_ma50 = b.rsi_ma50
  /\ a.ma = b.ma
  /\ a.fib = b.fib

BothEnginesDone == engine_replay.initialized /\ ind_pos = Len(bars_in)

\* C2: the engine given the whole sequence through initialize_from_history
\* and the engine given b1 through initialize_from_history and then b2..bn
\* one at a time through process_new_data end with the same number of rows
\* and identical RSI, RSI-signal, moving-average and Fibonacci values in
\* every row.
C2_ReplayEqualsIncremental ==
  BothEnginesDone =>
    /\ Len(engine.current_df) = Len(engine_replay.current_df)
    /\ \A i \in 1..Len(engine.current_df) :
         SameIndicators(engine.current_df[i], engine_replay.current_df[i])

StrictlyIncreasingOpenTime ==
  \A i \in 1..(Len(bars_in) - 1) : bars_in[i].OpenTime < bars_in[i + 1].OpenTime

\* The same, for the sequences in which no two bars share an Open Time.
C2_EqualWhenOpenTimesDiffer ==
  (BothEnginesDone /\ StrictlyIncreasingOpenTime) =>
    /\ Len(engine.current_df) = Len(engine_replay.current_df)
    /\ \A i \in 1..Len(engine.current_df) :
         SameIndicators(engine.current_df[i], engine_replay.current_df[i])

\* The engine took a row in this step and its RSI calculator is seeded: the
\* step is the seeding or a later Wilder-smoothed update.
RsiStep ==
  /\ Len(engine'.current_df) = Len(engine.current_df) + 1
  /\ engine'.rsi.initialized

LastRsi(e) == e.current_df[Len(e.current_df)].rsi

AvgZero(avg) == avg[2] # 0 /\ avg[1] = 0

\* C11 as stated: at the seeding of a fresh RSI calculator with length + 1
\* prices, and at every later Wilder-smoothed update, the RSI is exactly 100
\* if the average loss is zero and exactly 0 if the average gain is zero.
C11_RsiEdgeRules ==
  [][RsiStep =>
       /\ AvgZero(engine'.rsi.previous_avg_loss) => LastRsi(engine') = RatInt(100)
       /\ AvgZero(engine'.rsi.previous_avg_gain) => LastRsi(engine') = RatInt(0)]_vars

\* C11 as the code has it: the average loss is tested first, so the RSI is
\* exactly 100 whenever the average loss is zero, also when the average gain
\* is zero too (flat prices), and exactly 0 when the average gain is zero
\* and the average loss is not.
C11_RsiLossTestedFirst ==
  [][RsiStep =>
       /\ AvgZero(engine'.rsi.previous_avg_loss) => LastRsi(engine') = RatInt(100)
       /\ (AvgZero(engine'.rsi.previous_avg_gain)
             /\ ~AvgZero(engine'.rsi.previous_avg_loss))
            => LastRsi(engine') = RatInt(0)]_vars

\* A Wilder-smoothed update after the seeding left both averages at zero
\* and an RSI of 100.
C11_Witness ==
  /\ engine.rsi.initialized
  /\ Len(engine.current_df) > engine.rsi.length + 1
  /\ AvgZero(engine.rsi.previous_avg_gain)
  /\ AvgZero(engine.rsi.previous_avg_loss)
  /\ LastRsi(engine) = RatInt(100)

RECURSIVE SumClose(_, _, _)
SumClose(rows, lo, hi) ==
  IF hi < lo THEN 0 ELSE rows[hi].Close + SumClose(rows, lo, hi - 1)

\* C12: for each moving average of length L of a fresh engine (L = 7 among
\* them), the value in the engine's i-th row is undefined for i < L and,
\* from the L-th row on, the arithmetic mean of the closes of rows
\* i-L+1 .. i, the L most recent bars the engine was fed.
C12_MovingAverageOfWindow ==
  \A i \in 1..Len(engine.current_df) :
    \A name \in MaNames :
      LET L == MaLength(name)
          v == engine.current_df[i].ma[name]
      IN  IF i < L THEN IsNa(v)
          ELSE v = RatNorm(SumClose(engine.current_df, i - L + 1, i), L)

\* The engine has taken more than seven bars, the last of them through
\* process_new_data, and the window of SMA(7) has moved: the eighth value
\* differs from the seventh.
C12_Witness ==
  /\ Len(engine.current_df) > 7
  /\ ~IsNa(engine.current_df[7].ma["short007"])
  /\ ~IsNa(engine.current_df[8].ma["short007"])
  /\ engine.current_df[8].ma["short007"] # engine.current_df[7].ma["short007"]
  /\ IsNa(engine.current_df[6].ma["short007"])

\* The row of a fresh engine at which the RSI signal line is first defined:
\* the RSI needs length + 1 closes, the signal window as many RSI values as
\* its length (14 + 36 = 50 with the lengths the engine is built with).
FirstSignalRow == RsiLength + RsiSignalLength

\* C31: in a fresh engine the RSI signal line is undefined in every row
\* before FirstSignalRow and is, from that row on, the mean of the
\* RsiSignalLength most recent RSI values; the signal window never holds an
\* undefined RSI value.
C31_SignalIsMeanOfRecentRsi ==
  /\ \A i \in 1..Len(engine.current_df) :
       LET v == engine.current_df[i].rsi_ma50
       IN  IF i < FirstSignalRow THEN IsNa(v)
           ELSE v = RatMean([k \in 1..RsiSignalLength |->
                               engine.current_df[i - RsiSignalLength + k].rsi])
  /\ \A k \in 1..Len(engine.rsi_ma50.values) : ~IsNa(engine.rsi_ma50.values[k])
  /\ Len(engine.rsi_ma50.values) =
       Min2(RsiSignalLength, Max2(0, Len(engine.current_df) - RsiLength))

\* The signal line became defined at FirstSignalRow and its window has moved
\* since: the next value differs, and the RSI that left the window differs
\* from the one that entered it.
C31_Witness ==
  /\ Len(engine.current_df) > FirstSignalRow
  /\ IsNa(engine.current_df[FirstSignalRow - 1].rsi_ma50)
  /\ ~IsNa(engine.current_df[FirstSignalRow].rsi_ma50)
  /\ engine.current_df[FirstSignalRow + 1].rsi_ma50
       # engine.current_df[FirstSignalRow].rsi_ma50
  /\ IsNa(engine.current_df[RsiLength].rsi)

\* The closes of rows lo .. hi of the engine's table.
ClosesOf(lo, hi) == [k \in 1..(hi - lo + 1) |-> engine.current_df[lo + k - 1].Close]

\* C32: with a Fibonacci window of length FibLength, all seven levels are
\* undefined in the first FibLength - 1 rows; from row FibLength on,
\* level_000 is the minimum and level_100 the maximum of the FibLength most
\* recent closes, level_500 is their midpoint, and the levels are ordered
\* level_000 <= level_236 <= level_382 <= level_500 <= level_618 <=
\* level_764 <= level_100.
C32_FibonacciLevels ==
  \A i \in 1..Len(engine.current_df) :
    LET fib == engine.current_df[i].fib
    IN  IF i < FibLength THEN fib = FibNaN
        ELSE LET lo == SeqMin(ClosesOf(i - FibLength + 1, i))
                 hi == SeqMax(ClosesOf(i - FibLength + 1, i))
             IN  /\ fib.level_000 = RatInt(lo)
                 /\ fib.level_100 = RatInt(hi)
                 /\ fib.level_500 = RatNorm(lo + hi, 2)
                 /\ RatLE(fib.level_000, fib.level_236)
                 /\ RatLE(fib.level_236, fib.level_382)
                 /\ RatLE(fib.level_382, fib.level_500)
                 /\ RatLE(fib.level_500, fib.level_618)
                 /\ RatLE(fib.level_618, fib.level_764)
                 /\ RatLE(fib.level_764, fib.level_100)

\* The window was filled at row FibLength with closes that differ, and has
\* moved past its maximum since: the next row's level_100 is lower.
C32_Witness ==
  /\ Len(engine.current_df) > FibLength
  /\ engine.current_df[FibLength - 1].fib = FibNaN
  /\ engine.current_df[FibLength].fib.level_000
       # engine.current_df[FibLength].fib.level_100
  /\ engine.current_df[FibLength + 1].fib.level_100
       # engine.current_df[FibLength].fib.level_100

\* C33: the watermark last_successful_ws_update never moves backward,
\* under any interleaving of kline_handler with a gap-recovery run.
C33_WatermarkMonotone ==
  [][last_successful_ws_update' >= last_successful_ws_update]_vars

\* The watermark moves backward only at the end of a gap-recovery run
\* during which a live message moved it past the value the run had read.
C33_BackwardOnlyAfterLiveDuringRun ==
  [][last_successful_ws_update' < last_successful_ws_update
       => /\ pc = "gap_fetch"
          /\ pc' # "gap_fetch"
          /\ last_successful_ws_update > gap.w_read]_vars

\* C34: in the bar table every completed bar after the first opens at the
\* close of the bar before it, whether the bars come from the ordinary path
\* or from the large-jump path.
C34_BarsChained ==
  \A i \in 1..(Len(df) - 1) : df[i + 1].Open = df[i].Close

\* The bar table holds three bars: one completed by the ordinary path and
\* the two bars of a large jump, the bars not all at one price.
C34_Witness ==
  /\ Len(df) = 3
  /\ \E i \in LogIdx : agg_log[i].path = "ordinary" /\ Len(agg_log[i].bars) = 1
  /\ \E i \in LogIdx : agg_log[i].path = "jump" /\ Len(agg_log[i].bars) = 2
  /\ df[2].Open # df[3].Open

\* The bars emitted so far, in the bar table or still on their way to it.
EmittedBars ==
  {df[i] : i \in 1..Len(df)}
    \cup {all_completed_bars[i] : i \in 1..Len(all_completed_bars)}
    \cup UNION {{agg_log[i].bars[j] : j \in 1..Len(agg_log[i].bars)} : i \in LogIdx}

\* C35: with events whose close lies between their low and their high, the
\* in-progress bar always has low <= open_price <= high, and every emitted
\* bar has Low <= Open <= High and Low <= Close <= High, the two bars of a
\* large-jump split included.
C35_BarsWellFormed ==
  /\ \A i \in LogIdx :
       agg_log[i].kline.low <= agg_log[i].kline.close
         /\ agg_log[i].kline.close <= agg_log[i].kline.high
  /\ current_bar # <<>> =>
       /\ current_bar[1].low <= current_bar[1].open_price
       /\ current_bar[1].open_price <= current_bar[1].high
  /\ \A b \in EmittedBars :
       /\ b.Low <= b.Open /\ b.Open <= b.High
       /\ b.Low <= b.Close /\ b.Close <= b.High

\* A large jump upward split into two bars from an in-progress bar whose
\* high, taken from a wick, lay above its open but below open + range_size.
C35_Witness ==
  \E i \in LogIdx :
    /\ agg_log[i].path = "jump"
    /\ Len(agg_log[i].bars) = 2
    /\ Move(agg_log[i]) > 0
    /\ agg_log[i].bars[1].Low < agg_log[i].bars[1].Open
    /\ agg_log[i].bars[1].High = agg_log[i].bars[1].Close
    /\ agg_log[i].bars[2].Low = agg_log[i].bars[2].Open
    /\ agg_log[i].bars[2].Open < agg_log[i].bars[2].High

\* The events the aggregator has processed, in the order of processing.
ProcessedEvents == [i \in LogIdx |-> agg_log[i].kline]

\* C36: every processed event is counted in exactly one bar: the Volume of
\* all completed bars plus the volume of the events held for the
\* in-progress bar is the volume of all processed events, and the same for
\* the trade counts and the quote volume.
C36_EventsCountedOnce ==
  /\ SumField(df \o all_completed_bars, "Volume") + SumField(bar_klines, "volume")
       = SumField(ProcessedEvents, "volume")
  /\ SumField(df \o all_completed_bars, "NumberOfTrades") + SumField(bar_klines, "trades")
       = SumField(ProcessedEvents, "trades")
  /\ SumField(df \o all_completed_bars, "QuoteAssetVolume") + SumField(bar_klines, "quote_volume")
       = SumField(ProcessedEvents, "quote_volume")

\* Three events were processed: the ordinary path completed a bar, a large
\* jump was split in two bars, and no event is held for the in-progress bar.
C36_Witness ==
  /\ Len(agg_log) = 3
  /\ Len(df) = 3
  /\ bar_klines = <<>>
  /\ \E i \in LogIdx : agg_log[i].path = "jump" /\ Len(agg_log[i].bars) = 2
  /\ SumField(df, "QuoteAssetVolume") > 0

C20_LockOnlyForDrain ==
  [][(current_bar' # current_bar \/ agg_log' # agg_log)
       => (data_lock # "main" /\ data_lock' # "main")]_vars

IndicatorsUpToDate == engine_initialized /\ last_modified_time = csv_mtime

\* C3: once the indicator engine has processed the bar table (initial replay
\* followed by incremental updates), the indicator table has exactly one row
\* per completed bar and the i-th indicator row carries the i-th bar's Open
\* Time.
C3_OneRowPerBar ==
  IndicatorsUpToDate =>
    /\ Len(indicators_csv) = Len(csv_file)
    /\ \A i \in 1..Len(indicators_csv) :
         indicators_csv[i].OpenTime = csv_file[i].OpenTime

(***************************************************************************)
(* Properties of the two tables on disk.                                   *)
(***************************************************************************)
\* C16: a reader that opens the bar table file at any moment during
\* save_csv finds either the complete previous table (the file as it was
\* when save_csv was called) or the complete new table (the bar table in
\* memory), never a partly written one; until the rename it is the previous
\* table.
C16_BarFileOldOrNew ==
  /\ csv_file \in {hist.file_at_save, df}
  /\ csv_file = SubSeq(df, 1, Len(csv_file))
  /\ pc \in {"save_open", "save_write"} => csv_file = hist.file_at_save

\* save_csv has written a part of the new table to its temporary file while
\* the bar table file holds the previous table, which is not empty.
C16_Witness ==
  /\ pc = "save_write"
  /\ 0 < Len(csv_tmp)
  /\ Len(csv_tmp) < Len(df)
  /\ csv_file # <<>>
  /\ csv_file # df
  /\ csv_file = hist.file_at_save

\* C17: a reader that opens the indicator file at any moment during
\* save_indicators_to_csv finds either the complete previous file or the
\* complete new file, never a partial one.
C17_IndicatorFileOldOrNew ==
  indicators_csv \in {hist.ind_before, indicators_csv \o ind_pending}

\* The bars the aggregator has completed, in the order of their completion.
RECURSIVE CompletedBars(_)
CompletedBars(log) ==
  IF log = <<>> THEN <<>>
  ELSE CompletedBars(SubSeq(log, 1, Len(log) - 1)) \o log[Len(log)].bars

\* C18: at whatever point of the main loop the shutdown signal arrives,
\* every bar the aggregator had completed is in the persisted bar table when
\* the process exits.
C18_CompletedBarsPersisted ==
  pc = "exited" => csv_file = CompletedBars(agg_log)

\* The same, for a signal that does not arrive between the aggregation of
\* the drained events and the extension of the bar table in memory.
C18_PersistedOutsideDrain ==
  (pc = "exited" /\ all_completed_bars = <<>>) => csv_file = CompletedBars(agg_log)

\* The process was started with an unknown symbol or an invalid range size.
InvalidStart == ~hist.symbol_found \/ hist.RANGE_SIZE < 0

\* C23: startup with an unknown symbol or with an invalid configured range
\* size (a negative RANGE_SIZE) terminates the process before any event is
\* aggregated, and no other startup outcome leaves range_size <= 0.
C23_InvalidStartTerminates ==
  /\ InvalidStart => (pc \in {"startup", "exited"} /\ agg_log = <<>>)
  /\ (~InvalidStart /\ pc \notin {"startup", "exited"}) => range_size > 0

\* The part of C23 that the code has: an unknown symbol terminates the
\* process before any event is aggregated, and a start with a known symbol
\* and a RANGE_SIZE that is not negative leaves range_size > 0.
C23_UnknownSymbolTerminates ==
  /\ ~hist.symbol_found => (pc \in {"startup", "exited"} /\ agg_log = <<>>)
  /\ (~InvalidStart /\ pc \notin {"startup", "exited"}) => range_size > 0

\* process_new_data returns to the main loop.
ProcessReturns == pc # "gap_decide" /\ pc' = "gap_decide"

\* C22: if writing the bar table fails in a cycle, the in-memory bar table is
\* left unchanged and the write is attempted again on the next main-loop
\* cycle, so that after the next successful write the file contains every
\* completed bar: a call of process_new_data that finds the file behind the
\* table does not return without having called save_csv.
C22_FailedWriteRetried ==
  [][/\ pc \in {"save_open", "save_write"} /\ pc' # "exited" => df' = df
     /\ (ProcessReturns /\ csv_file # df) => pc \in {"save_open", "save_write"}
     /\ (ProcessReturns /\ csv_file' # csv_file) => csv_file' = df]_vars

\* The parts of C22 that do not depend on when the write is repeated: a
\* failed write leaves the table in memory as it was, and a successful write
\* puts the whole table into the file.
C22_TableKeptAndWrittenWhole ==
  [][/\ pc \in {"save_open", "save_write"} /\ pc' # "exited" => df' = df
     /\ (ProcessReturns /\ csv_file' # csv_file) => csv_file' = df]_vars

(***************************************************************************)
(* Properties of the pipeline.                                             *)
(***************************************************************************)
ProcessedCount(id) == Cardinality({i \in 1..Len(agg_log) : agg_log[i].id = id})

InBuffer(id) == \E i \in 1..Len(klines_data) : klines_data[i].id = id

\* The klines of the outage: those the exchange has between one second after
\* the last live message before the outage and two seconds before the
\* reconnect.
Missed == {ts \in {hist.lo + 1000 + (i - 1) * 1000 :
                     i \in 1..Max2(0, ((hist.hi - hist.lo - 3000) \div 1000) + 1)} :
             Traded(ts)}

\* C4: once the stream is re-established after an outage and the gap-recovery
\* run triggered by the reconnection has returned, with every historical
\* query answered, the klines of the outage have been added to the buffer.
C4_OutageBackfilled ==
  (hist.recovered /\ ~hist.api_failed) => Missed \subseteq hist.appended_ts

\* The same, restricted to the order in which the gap check precedes the
\* first live message after the outage was detected.
C4_BackfilledWhenGapCheckFirst ==
  (hist.recovered /\ ~hist.api_failed /\ ~hist.live_first)
    => Missed \subseteq hist.appended_ts

C4_Witness ==
  hist.recovered /\ ~hist.api_failed /\ ~hist.live_first /\ Missed # {}

\* C5: the bar table has non-decreasing Open Time from first row to last.
C5_BarTableOrdered ==
  \A i \in 1..(Len(df) - 1) : df[i].OpenTime <= df[i + 1].OpenTime

OnePerTimestamp(s) ==
  \A i, j \in 1..Len(s) : s[i].timestamp = s[j].timestamp => i = j

\* C13: after a gap-recovery merge the shared buffer holds at most one event
\* per open-time timestamp, and no backfilled event was added for an interval
\* whose event the live stream had already delivered.
C13_MergeDeduplicated ==
  /\ pc = "process2" => OnePerTimestamp(klines_data)
  /\ hist.backfilled_live = {}

\* The merge of a gap-recovery run, lines 754-763.
GapMerge == pc = "gap_fetch" /\ pc' = "process2"

\* C21: data_lock is not held during the historical fetch of
\* check_for_data_gaps, so the feed thread can enqueue throughout a recovery,
\* and every event it enqueued during the fetch is still in the buffer after
\* the merge.
C21_LiveKeptThroughFetch ==
  [][/\ pc = "gap_fetch" => data_lock = "free"
     /\ GapMerge =>
          \A i \in 1..Len(klines_data) :
            klines_data[i].id \in hist.during_fetch
              => \E j \in 1..Len(klines_data') : klines_data'[j] = klines_data[i]]_vars

\* A merge has put backfilled klines into a buffer that holds an event
\* enqueued during the fetch.
C21_Witness ==
  /\ pc = "process2"
  /\ hist.last_run = "merged"
  /\ \E i \in 1..Len(klines_data) : klines_data[i].id \in hist.during_fetch

\* C25: if one chunk of a multi-chunk gap window comes back empty or
\* malformed while other chunks return data, the time range of the failed
\* chunk is requested again on a later gap check rather than being treated
\* as filled: the merge leaves the watermark where the next window, which
\* starts GAP_START_OFFSET_MS after it, still covers the failed chunk.
C25_FailedChunkRequestedAgain ==
  [][GapMerge =>
       \A i \in 1..Len(gap.requests) :
         ~gap.requests[i][3]
           => gap_start_of(last_successful_ws_update') <= gap.requests[i][1]]_vars

\* C26: in every reachable state gap_fill_retry_count is at most
\* MAX_GAP_FILL_RETRIES, whatever mix of empty results and exceptions the
\* gap-recovery runs end with.
C26_RetryCountBounded == gap_fill_retry_count <= MAX_GAP_FILL_RETRIES

\* The retry counter after a run that did not end with an exception is
\* below MAX_GAP_FILL_RETRIES.
C26_BoundedWithoutExceptions ==
  hist.last_run # "error" => gap_fill_retry_count < MAX_GAP_FILL_RETRIES

GapRunStarts == pc = "gap_start" /\ pc' = "gap_window"

GapRunFinishes == pc \in {"gap_window", "gap_fetch"}
                  /\ pc' \notin {"gap_window", "gap_fetch"}

GapRunReachesFetch == pc = "gap_window" /\ pc' = "gap_fetch"

\* C27: gap-recovery runs do not overlap (a run starts only while no run is
\* in progress, and the in-progress flags are set exactly from the start
\* of a run to its end), and a run that reaches the fetch stage started at
\* least GAP_FILL_DEBOUNCE_SECONDS after the previous run finished.
C27_RunsApartAndDebounced ==
  [][/\ GapRunStarts => ~gap_filling_in_progress /\ ~data_gap_filling
     /\ gap_filling_in_progress' = (pc' \in {"gap_window", "gap_fetch"})
     /\ data_gap_filling' = gap_filling_in_progress'
     /\ GapRunFinishes => last_gap_fill_time' = now
     /\ GapRunReachesFetch =>
          \/ last_gap_fill_time = NoTime
          \/ gap.current_time - last_gap_fill_time
               >= GAP_FILL_DEBOUNCE_SECONDS * 1000]_vars

\* A run in its fetch stage that started less than GAP_CHECK_INTERVAL after
\* the previous run finished.
C27_Witness ==
  /\ pc = "gap_fetch"
  /\ last_gap_fill_time # NoTime
  /\ gap.current_time - last_gap_fill_time < GAP_CHECK_INTERVAL * 1000

\* start_websocket, called by the main loop after a failed health check,
\* returns.
StartWebsocketReturn == pc = "reconnect" /\ pc' = "sleep"

\* An attempt of start_websocket fails: the call stays in start_websocket
\* (the step is not one of the feed thread).
StartWebsocketFails == pc = "reconnect" /\ pc' = "reconnect" /\ fed' = fed

\* C28: ws_reconnect_delay lies between 5 and 60 seconds in every state; a
\* failed connection attempt doubles it, up to the cap of 60, and a
\* successful start_websocket resets it to 5.
C28_ReconnectDelayBounded ==
  [][/\ ws_reconnect_delay' >= WS_INITIAL_RECONNECT_DELAY
     /\ ws_reconnect_delay' <= WS_MAX_RECONNECT_DELAY
     /\ StartWebsocketFails =>
          ws_reconnect_delay' = Min2(2 * ws_reconnect_delay, WS_MAX_RECONNECT_DELAY)
     /\ StartWebsocketReturn =>
          ws_reconnect_delay' = WS_INITIAL_RECONNECT_DELAY
     /\ (~StartWebsocketFails /\ ~StartWebsocketReturn) =>
          ws_reconnect_delay' = ws_reconnect_delay]_vars

\* start_websocket has returned after failures that slept 10, 20, 40, 60 and
\* 60 seconds or more, and the delay is 5 again.
C28_Witness ==
  /\ pc = "sleep"
  /\ ws_reconnect_delay = WS_INITIAL_RECONNECT_DELAY
  /\ now - loop_time >= (10 + 20 + 40 + 60 + 60) * 1000

\* check_websocket_health is called by the main loop and returns.
HealthChecked ==
  /\ pc = "health_decide"
  /\ pc' \in {"reconnect", "sleep"}
  /\ loop_time - last_health_check >= HEALTH_CHECK_INTERVAL * 1000

\* C29: whenever more than STALE_SECONDS have passed since the last received
\* message, however long ago it came, check_websocket_health reports the
\* connection unhealthy and the main loop calls start_websocket.
C29_StaleAlwaysUnhealthy ==
  [][(/\ HealthChecked
      /\ last_kline_time # NoTime
      /\ now - last_kline_time > STALE_SECONDS * 1000)
       => (pc' = "reconnect" /\ ~ws_connected')]_vars

\* The same for every elapsed time whose seconds within the day exceed
\* STALE_SECONDS.
C29_StaleWithinDayUnhealthy ==
  [][(/\ HealthChecked
      /\ last_kline_time # NoTime
      /\ (now - last_kline_time) % OneDayMs >= (STALE_SECONDS + 1) * 1000)
       => (pc' = "reconnect" /\ ~ws_connected')]_vars

\* The chunk loop of a gap-recovery run has made its last request.
LastChunkRequested ==
  pc = "gap_fetch" /\ gap.current_chunk_start >= gap.gap_end_ms

\* The open times of the one-second klines in the window of the run.
WindowOpenTimes ==
  LET first == AlignUp(gap.gap_start_ms)
      last == AlignDown(gap.gap_end_ms)
      n == IF last < first THEN 0 ELSE ((last - first) \div 1000) + 1
  IN  {first + (i - 1) * 1000 : i \in 1..n}

\* Every kline of the window was returned by the requests, each once.
WindowCovered ==
  /\ {gap.all_gap_data[i].timestamp : i \in 1..Len(gap.all_gap_data)}
       = WindowOpenTimes
  /\ Len(gap.all_gap_data) = Cardinality(WindowOpenTimes)

\* C30: against an endpoint that has a kline for every second and returns
\* at most MAX_KLINES_PER_REQUEST rows from the start time of the request,
\* the chunk requests of one gap window return every kline whose open time
\* lies in the window, each exactly once, for every alignment of the window
\* start.
C30_ChunksCoverWindow == LastChunkRequested => WindowCovered

\* The same for the runs none of whose requests of full chunk size starts on
\* a second.
C30_CoveredUnlessChunkStartsOnSecond ==
  (/\ LastChunkRequested
   /\ \A i \in 1..Len(gap.requests) :
        ~(/\ gap.requests[i][1] % 1000 = 0
          /\ gap.requests[i][2] - gap.requests[i][1] = chunk_size_ms))
    => WindowCovered

\* C6: every event appended to the shared buffer is processed by the
\* aggregator exactly once, unless the capacity bound evicted it: an event
\* still in the buffer has not been processed (or is being processed, under
\* the lock), an event no longer in the buffer was processed once.
C6_ProcessedExactlyOnce ==
  \A id \in 1..(next_id - 1) :
    IF id \in hist.evicted THEN ProcessedCount(id) = 0
    ELSE IF InBuffer(id)
         THEN ProcessedCount(id) = (IF data_lock = "main" THEN 1 ELSE 0)
         ELSE ProcessedCount(id) = 1

C6_Witness ==
  /\ klines_data = <<>>
  /\ \E id \in hist.during_fetch : ProcessedCount(id) = 1
  /\ Len(agg_log) > Cardinality(hist.during_fetch)

\* C37: the shared buffer never holds more than KLINES_MAXLEN events; a merge
\* whose sorted result is longer leaves exactly KLINES_MAXLEN events, every
\* one of them with a timestamp not earlier than that of any event dropped,
\* and a dropped event is never processed by the aggregator.
C37_BufferBoundedKeepsLatest ==
  /\ [](/\ Len(klines_data) <= KLINES_MAXLEN
        /\ \A id \in hist.evicted : ProcessedCount(id) = 0 /\ ~InBuffer(id))
  /\ [][GapMerge =>
          \A merged \in {klines_data \o Relabel(gap.all_gap_data, next_id)} :
          \A kept \in {{klines_data'[j].id : j \in 1..Len(klines_data')}} :
          \A dropped \in {{i \in 1..Len(merged) : merged[i].id \notin kept}} :
            /\ Len(klines_data') = Min2(Len(merged), KLINES_MAXLEN)
            /\ Cardinality(kept) = Len(klines_data')
            /\ kept \subseteq {merged[i].id : i \in 1..Len(merged)}
            /\ \A i \in dropped : \A j \in 1..Len(klines_data') :
                 merged[i].timestamp <= klines_data'[j].timestamp
            /\ hist'.evicted = hist.evicted \cup {merged[i].id : i \in dropped}]_vars

\* A merge overflowed the buffer, and what it kept has been aggregated.
C37_Witness ==
  /\ hist.evicted # {}
  /\ hist.last_run = "merged"
  /\ klines_data = <<>>
  /\ pc = "health_decide"
  /\ Len(agg_log) = KLINES_MAXLEN + 1

\* check_for_data_gaps is between line 689 and its return.
GapRunExecuting == pc \in {"gap_window", "gap_fetch"}

\* Every exit of a run clears both flags and records the time.
GapRunExitsClean ==
  [][GapRunFinishes =>
       /\ ~gap_filling_in_progress'
       /\ ~data_gap_filling'
       /\ last_gap_fill_time' = now']_vars

\* C38: whenever check_for_data_gaps is not executing, gap_filling_in_progress
\* and data_gap_filling are both false, and every exit of a run (small
\* window, merge, empty result, give-up, exception) clears them and records
\* last_gap_fill_time.
C38_FlagsFalseOutsideRun ==
  /\ [](~GapRunExecuting => ~gap_filling_in_progress /\ ~data_gap_filling)
  /\ GapRunExitsClean

\* C38 as the code has it: the same from the end of the prefetch on; during
\* prefetch_historical_data data_gap_filling is true.  The flags are not
\* what keeps a later check from running: after a run of any outcome the
\* guards of lines 646-655 pass again once the debounce time is over.
C38_FlagsFalseOutsideRunAfterPrefetch ==
  /\ [](/\ ~prefetch_completed => ~gap_filling_in_progress
        /\ prefetch_completed /\ ~GapRunExecuting
             => ~gap_filling_in_progress /\ ~data_gap_filling)
  /\ GapRunExitsClean

\* A run ended with an exception and a later run has started.
C38_Witness ==
  /\ hist.last_run = "error"
  /\ pc = "gap_window"
  /\ gap_filling_in_progress
  /\ data_gap_filling
  /\ last_gap_fill_time # NoTime

\* C39: whenever the large-jump condition holds, handle_large_price_jump
\* emits exactly two bars: the branch that emits one bar and starts a new
\* in-progress bar with the remaining move is never taken.
C39_LargeJumpAlwaysTwoBars ==
  \A i \in LogIdx : agg_log[i].path = "jump" => Len(agg_log[i].bars) = 2

\* The move from the in-progress bar's open to the event's close, as the
\* exact difference of the two binary64 prices.
ExactMove(e) ==
  IF DoubleLess(e.kline.close, e.open_before)
  THEN ExactSub(e.open_before, e.kline.close)
  ELSE ExactSub(e.kline.close, e.open_before)

\* C7 with fractional prices: an event whose close is exactly 2 x range_size
\* away from the in-progress bar's open completes exactly two bars, and the
\* sum of their (Close - Open) is the move: the first opens at the bar's
\* open, the second opens where the first closes and closes at the event's
\* close.
C7_DoubleRangeTwoBarsFractional ==
  \A i \in LogIdx :
    LET e == agg_log[i]
    IN  (e.had_bar /\ ExactMove(e) = ExactAdd(range_size, range_size)) =>
          /\ Len(e.bars) = 2
          /\ e.bars[1].Open = e.open_before
          /\ e.bars[2].Open = e.bars[1].Close
          /\ e.bars[2].Close = e.kline.close

\* C24 with fractional prices: for any event whose close is at least
\* 2 x range_size away from the in-progress bar's open, at most two bars are
\* emitted, the first closes at open + range_size (up move) or
\* open - range_size (down move) as the program computes it, and the last
\* closes at the event's close.
C24_LargeJumpAtMostTwoBarsFractional ==
  \A i \in LogIdx :
    LET e == agg_log[i]
    IN  (e.had_bar /\ DoubleLE(ExactAdd(range_size, range_size), ExactMove(e))) =>
          /\ Len(e.bars) \in {1, 2}
          /\ e.bars[1].Close = (IF DoubleLess(e.open_before, e.kline.close)
                                THEN float_add(e.open_before, range_size)
                                ELSE float_sub(e.open_before, range_size))
          /\ e.bars[Len(e.bars)].Close = e.kline.close

\* C14: whenever the main loop calls start_websocket after a failed health
\* check, ws_reconnection_detected is true when the call returns, also when
\* no message was ever received and when ws_connected was already false.
C14_ReconnectSetsFlag ==
  [][StartWebsocketReturn => ws_reconnection_detected']_vars

\* A gap-recovery run returns through the empty-result branch and its
\* increment brings the retry counter to the maximum.
EmptyRunReachesMax ==
  /\ pc = "gap_fetch"
  /\ pc' # "gap_fetch"
  /\ hist'.last_run = "empty"
  /\ hist'.empty_streak = hist.empty_streak + 1
  /\ gap_fill_retry_count + 1 >= MAX_GAP_FILL_RETRIES

\* C15: the gap-recovery run that obtains no data and reaches
\* MAX_GAP_FILL_RETRIES resets the retry counter to 0 and advances the
\* watermark to that run's current time, so the retry counter triggers no
\* further run for that gap.
C15_GiveUpResetsRetry ==
  [][EmptyRunReachesMax =>
       /\ gap_fill_retry_count' = 0
       /\ last_successful_ws_update' = gap.current_time]_vars

\* Three consecutive runs obtained no data; the third reset the counter and
\* moved the watermark to its current time.
C15_Witness ==
  /\ hist.empty_streak = MAX_GAP_FILL_RETRIES
  /\ hist.last_run = "empty"
  /\ gap_fill_retry_count = 0
  /\ last_successful_ws_update = last_gap_fill_time
  /\ last_successful_ws_update > 0

SmallWindowReturn == pc = "gap_window" /\ pc' = "health_decide"

\* C9 as stated: a gap-recovery invocation whose window has start >= end
\* returns without fetching and leaves the watermark and the retry counter
\* as they were.
C9_SmallWindowLeavesRetry ==
  [][SmallWindowReturn =>
       /\ last_successful_ws_update' = last_successful_ws_update
       /\ gap_fill_retry_count' = gap_fill_retry_count]_vars

\* C9 as the code has it: such an invocation returns without fetching, leaves the
\* watermark as it was and resets the retry counter to 0.
C9_SmallWindowResetsRetry ==
  [][SmallWindowReturn =>
       /\ last_successful_ws_update' = last_successful_ws_update
       /\ gap_fill_retry_count' = 0
       /\ gap.requests = <<>>
       /\ klines_data' = klines_data
       /\ next_id' = next_id]_vars

C9_Witness == hist.skip_retry_before > 0 /\ gap_fill_retry_count = 0

ChunkLoopDone == gap.current_chunk_start >= gap.gap_end_ms

\* C10 as stated: the window requested from the historical endpoint starts
\* at W + 1 ms and ends at N minus the safety margin.
C10_WindowStartsOneMsAfter ==
  (pc = "gap_fetch" /\ gap.requests # <<>>) =>
    /\ gap.requests[1][1] = gap.w_read + 1
    /\ ChunkLoopDone =>
         gap.requests[Len(gap.requests)][2] = gap.current_time - GAP_SAFETY_MARGIN_MS

\* C10 as the code has it: the window starts at W + 1000 ms (one second after the
\* watermark) and ends at N minus the 2000 ms safety margin, N being the time
\* read when the run started.
C10_WindowStartsOneSecondAfter ==
  (pc = "gap_fetch" /\ gap.requests # <<>>) =>
    /\ gap.requests[1][1] = gap.w_read + 1000
    /\ ChunkLoopDone =>
         gap.requests[Len(gap.requests)][2] = gap.current_time - 2000

C10_Witness ==
  /\ pc = "gap_fetch"
  /\ gap.requests # <<>>
  /\ ChunkLoopDone
  /\ gap.all_gap_data # <<>>

====
